---- MODULE Spec2Model ----
(***************************************************************************)
(* A model of the bm-lrs repository (pkg/route), of the M-value engine     *)
(* (pkg/mvalue) and of the catalog they share.                             *)
(*                                                                         *)
(* The catalog table lives in Postgres and is reached through DuckDB's     *)
(* postgres extension.  A database/sql transaction on the DuckDB handle    *)
(* opens one Postgres transaction; the model gives it snapshot isolation   *)
(* with row locks (a writer waits for the holder of the row, and fails     *)
(* when the row was changed by a transaction that committed after its      *)
(* snapshot).  Statements outside a transaction see the committed table.   *)
(***************************************************************************)
EXTENDS Integers, Sequences, FiniteSets, Bags, TLC

\* ---------------------------------------------------------------- bounds
\* Number of SyncFromGeoJSON calls made over a run.
MaxSyncs == 2

\* ---------------------------------------------------------------- inputs
Syncers == {"s1", "s2"}
Routes == {"R1", "R2"}
\* The vertex measures of a feature's path, in vertex order.  LAT and LON are
\* carried along with MVAL by every query of the merge; the model keeps MVAL
\* as the vertex's data.
Paths == {<<0, 5>>, <<0, 3, 7>>}
Feature == [LINKID : Routes, path : Paths]
FirstFeature == [LINKID |-> "R1", path |-> <<0, 5>>]
\* The incoming ESRI JSON documents: every document of one feature, and the
\* documents of two features that begin with FirstFeature (the second feature
\* is then the same route again, with the same or another path, or the other
\* route).
Payloads == {<<f>> : f \in Feature} \cup {<<FirstFeature, f>> : f \in Feature}

NULL == "NULL"
CURRENT_DATE == "today"

\* ------------------------------------------------------------- bag helpers
BagFilter(B, P(_)) == [r \in {x \in DOMAIN B : P(x)} |-> B[r]]
RouteIDs(B) == {r.ROUTEID : r \in DOMAIN B}
RowsOfRoute(B, id) == BagFilter(B, LAMBDA r : r.ROUTEID = id)

\* ------------------------------------------------- incoming routes (batch)
\* One row per vertex of the feature, VERTEX_SEQ counting from 0.
PointRows(f) ==
  SetToBag({[ROUTEID |-> f.LINKID, VERTEX_SEQ |-> k - 1, MVAL |-> f.path[k]] :
              k \in 1..Len(f.path)})

\* LEAD(.., 1) over the route's vertices ordered by VERTEX_SEQ, the trailing
\* vertex (whose next is null) filtered out.
SegmentRows(f) ==
  SetToBag({[ROUTEID |-> f.LINKID, VERTEX_SEQ |-> k - 1,
             MVAL |-> f.path[k], MVAL1 |-> f.path[k + 1]] :
              k \in 1..(Len(f.path) - 1)})

\* One aggregate row: the line through the route's vertices in VERTEX_SEQ order.
LinestringRows(f) ==
  SetToBag({[ROUTEID |-> f.LINKID, linestr |-> f.path]})

\* Every incoming route is sinked to its own temp file and added to the batch
\* with push-down off, so the batch's point view is read_parquet over all of
\* those files: the rows of every feature, one after the other (UNION ALL).
RECURSIVE ViewName(_)
ViewName(payload) ==
  IF payload = <<>> THEN EmptyBag
  ELSE PointRows(Head(payload)) (+) ViewName(Tail(payload))

RECURSIVE SegmentQuery(_)
SegmentQuery(payload) ==
  IF payload = <<>> THEN EmptyBag
  ELSE SegmentRows(Head(payload)) (+) SegmentQuery(Tail(payload))

RECURSIVE LinestringQuery(_)
LinestringQuery(payload) ==
  IF payload = <<>> THEN EmptyBag
  ELSE LinestringRows(Head(payload)) (+) LinestringQuery(Tail(payload))

\* ------------------------------------------------------------ merge query
\* Mutant: the previous file is left out of the merge.
MergeQuery_NoPrev(prev, cur) == cur

\* Mutant: the previous file is kept whole, incoming routes included.
MergeQuery_KeepAll(prev, cur) == prev (+) cur

\* SELECT * FROM prev WHERE ROUTEID NOT IN (SELECT DISTINCT(ROUTEID) FROM cur)
\* UNION ALL SELECT * FROM cur
MergeQuery(prev, cur) ==
  BagFilter(prev, LAMBDA r : r.ROUTEID \notin RouteIDs(cur)) (+) cur

\* ------------------------------------------------------------- file names
PointFile(stamp) == <<"lrs_point_merged", stamp>>
SegmentFile(stamp) == <<"lrs_segment_merged", stamp>>
LinestringFile(stamp) == <<"lrs_linestring_merged", stamp>>

\* ---------------------------------------------------------------- catalog
ActiveRows(cat) == {i \in 1..Len(cat) : cat[i].END_DATE = NULL}

\* WHERE END_DATE IS NULL ORDER BY VERSION DESC LIMIT 1: any active row of the
\* highest version (rows of equal version come in no defined order).
LatestRows(cat) ==
  {i \in ActiveRows(cat) : \A j \in ActiveRows(cat) : cat[j].VERSION <= cat[i].VERSION}

NoRoute == [route_id |-> "", push_down |-> FALSE,
            Point |-> <<>>, Segment |-> <<>>, LineString |-> <<>>]

\* The results GetLatest can return on a catalog: the query fails when the
\* table was never created, sql.ErrNoRows becomes the no-active-catalog error,
\* otherwise a Route on the row's three files with push-down on.
GetLatestResults(exists, cat, routeID) ==
  IF ~exists THEN {[err |-> "failed to query latest catalog", route |-> NoRoute]}
  ELSE IF ActiveRows(cat) = {}
    THEN {[err |-> "no active catalog entry found", route |-> NoRoute]}
  ELSE {[err |-> "nil",
         route |-> [route_id |-> routeID, push_down |-> TRUE,
                    Point |-> cat[i].LRS_POINT_FILE,
                    Segment |-> cat[i].LRS_SEGMENT_FILE,
                    LineString |-> cat[i].LRS_LINESTR_FILE]] : i \in LatestRows(cat)}

\* UPDATE lrs_catalogs SET END_DATE = CURRENT_DATE WHERE END_DATE IS NULL
UpdateEndDateRows(rows) ==
  [i \in 1..Len(rows) |->
     IF rows[i].END_DATE = NULL THEN [rows[i] EXCEPT !.END_DATE = CURRENT_DATE]
     ELSE rows[i]]

\* SELECT COALESCE(MAX(VERSION), 0) + 1
RECURSIVE MaxVersion(_)
MaxVersion(rows) ==
  IF rows = <<>> THEN 0
  ELSE LET m == MaxVersion(Tail(rows))
       IN IF Head(rows).VERSION > m THEN Head(rows).VERSION ELSE m

\* Mutant: the version is not read from the table.
NextVersion_Fixed(rows) == 1

NextVersion(rows) == MaxVersion(rows) + 1

\* VALUES (?, CURRENT_DATE, NULL, ?, ?, ?, ?, ?)
CatalogRow(version, stamp) ==
  [VERSION |-> version, END_DATE |-> NULL,
   LRS_POINT_FILE |-> PointFile(stamp),
   LRS_SEGMENT_FILE |-> SegmentFile(stamp),
   LRS_LINESTR_FILE |-> LinestringFile(stamp)]

\* ------------------------------------------------------------------ state
VARIABLES
  tableExists,  \* postgres_db.lrs_catalogs has been created (committed)
  catalog,      \* its committed rows, in insertion order
  files,        \* the parquet files under LRS_DATA_DIR: name -> bag of rows
  clock,        \* time.Now().UnixNano(), read once per merge
  calls,        \* SyncFromGeoJSON calls made so far
  pc,           \* per syncer: where it stands in SyncFromGeoJSON
  incoming,     \* per syncer: the features of its GeoJSON document
  stamp,        \* per syncer: nanoStamp
  prev,         \* per syncer: what GetLatest returned to the merge
  txn,          \* per syncer: its open catalog transaction
  result,       \* per syncer: what its last call returned
  before,       \* per syncer: its call's number and the committed catalog
                \* when the call began
  got,          \* what the reader's last GetLatest returned
  lrs,          \* M-value engine: the route geometry it is given
  points,       \* M-value engine: the event batches it is given
  out,          \* M-value engine: what CalculatePointsMValue returned
  tIn,          \* projection: the geometry, target CRS and axis flag given
  tOut,         \* projection: what Transform returned
  request,      \* exchange: the CRS, the schema and the batches the client sends
  maxBatchSize, \* exchange: the row count at which the handler spills
  served,       \* exchange: the catalog and the routes of its active version
  xpc,          \* exchange: where handleCalculateMValue stands
  pending,      \* exchange: the batches the reader has not given yet
  records,      \* exchange: the batches held in memory
  totalSize,    \* exchange: the rows received since the last spill
  currentFiles, \* exchange: the spill files, one batch each
  events,       \* exchange: the LRSEvents built from the request
  routeBatch,   \* exchange: the route ids added to the LRSRouteBatch
  response,     \* exchange: the error returned or the rows written
  retained,     \* exchange: the handler's references to each batch received
  tempDir,      \* exchange: the spill directory exists
  deferred,     \* exchange: the calls the handler has deferred
  held,         \* sink: the Route or the Events whose methods are called
  refs,         \* sink: the reference count of each of its batches
  disk,         \* sink: the directories and files that exist
  diskBefore,   \* sink: what existed before the last call
  dirs,         \* sink: the temp directories made so far
  ops,          \* sink: the calls made and what they returned
  doc,          \* GeoJSON: the document given
  gpc,          \* GeoJSON: how far it has been taken
  valid,        \* GeoJSON: what validateGeoJSON returned
  decoded,      \* GeoJSON: what NewLRSEventsFromGeoJSON returned
  encoded,      \* GeoJSON: what ToGeoJSON returned
  bpc,          \* batch: routes are being added, or the caller has returned
  added,        \* batch: the routes given to AddRoute, as the caller holds them
  batchRoutes,  \* batch: LRSRouteBatch.routes, the copies kept by route id
  sourceFiles,  \* batch: LRSRouteBatch.sourceFiles, the entries of each kind
  recordRefs,   \* batch: the reference count of each route's record batch
  tempDirs      \* batch: the temp directories of sinked routes that exist

repoVars == <<tableExists, catalog, files, clock, calls, pc, incoming, stamp,
              prev, txn, result, before, got>>
engineVars == <<lrs, points, out>>
transformVars == <<tIn, tOut>>
flightVars == <<request, maxBatchSize, served, xpc, pending, records,
                totalSize, currentFiles, events, routeBatch, response,
                retained, tempDir, deferred>>
sinkVars == <<held, refs, disk, diskBefore, dirs, ops>>
codecVars == <<doc, gpc, valid, decoded, encoded>>
batchVars == <<bpc, added, batchRoutes, sourceFiles, recordRefs, tempDirs>>
\* The state outside the repository and its catalog.
nonRepoVars == <<engineVars, transformVars, flightVars, sinkVars, codecVars,
  batchVars>>
\* The state outside the M-value engine.
nonEngineVars == <<repoVars, transformVars, flightVars, sinkVars, codecVars,
  batchVars>>
\* The state outside the projection.
nonTransformVars == <<repoVars, engineVars, flightVars, sinkVars, codecVars,
  batchVars>>
\* The state outside the exchange handler.
nonFlightVars == <<repoVars, engineVars, transformVars, sinkVars, codecVars,
  batchVars>>
\* The state outside the object that is sunk and released.
nonSinkVars == <<repoVars, engineVars, transformVars, flightVars, codecVars,
  batchVars>>
\* The state outside the GeoJSON codec.
nonCodecVars == <<repoVars, engineVars, transformVars, flightVars, sinkVars,
  batchVars>>
\* The state outside the route batch.
nonBatchVars == <<repoVars, engineVars, transformVars, flightVars, sinkVars,
                  codecVars>>
vars == <<repoVars, engineVars, transformVars, flightVars, sinkVars, codecVars,
          batchVars>>

NoTxn == [open |-> FALSE, exists |-> FALSE, rows |-> <<>>, base |-> 0,
          upd |-> {}, created |-> FALSE, nextVersion |-> 0]
NoPrev == [err |-> "none", route |-> NoRoute]
NoGot == [err |-> "none", route |-> NoRoute]

RepoInit ==
  /\ tableExists \in BOOLEAN
  /\ catalog = <<>>
  /\ files = <<>>
  /\ clock = 0
  /\ calls = 0
  /\ pc = [p \in Syncers |-> "idle"]
  /\ incoming = [p \in Syncers |-> <<>>]
  /\ stamp = [p \in Syncers |-> 0]
  /\ prev = [p \in Syncers |-> NoPrev]
  /\ txn = [p \in Syncers |-> NoTxn]
  /\ result = [p \in Syncers |-> "none"]
  /\ before = [p \in Syncers |-> [call |-> 0, exists |-> FALSE, rows |-> <<>>]]
  /\ got = NoGot

NoOut == [err |-> "none", rows |-> <<>>]

\* The engine before any call, with nothing to work on.
EngineIdle ==
  /\ lrs = <<>>
  /\ points = <<>>
  /\ out = NoOut

NoGeometry == [kind |-> "none", crs |-> "", lonCol |-> "", records |-> <<>>]
NoTransformed == [returned |-> FALSE, err |-> "none", geometry |-> NoGeometry]

\* The projection before any call, with nothing to work on.
TransformIdle ==
  /\ tIn = [obj |-> NoGeometry, crs |-> "", inverted |-> FALSE]
  /\ tOut = NoTransformed

NoSchema == [lat |-> "", lon |-> ""]
NoEvents == [err |-> "none", crs |-> "", schema |-> NoSchema, latCol |-> "",
             lonCol |-> "", records |-> <<>>, file |-> <<>>,
             materialized |-> FALSE]
NoResponse == [err |-> "none", rows |-> <<>>]

\* The exchange handler before any stream is opened.
FlightIdle ==
  /\ request = [crs |-> "", schema |-> NoSchema, batches |-> <<>>]
  /\ maxBatchSize = 0
  /\ served = [exists |-> FALSE, catalog |-> <<>>, routes |-> <<>>]
  /\ xpc = "idle"
  /\ pending = <<>>
  /\ records = <<>>
  /\ totalSize = 0
  /\ currentFiles = <<>>
  /\ events = NoEvents
  /\ routeBatch = {}
  /\ response = NoResponse
  /\ retained = <<>>
  /\ tempDir = FALSE
  /\ deferred = {}

NoPath == <<>>
NoObject == [kind |-> "none", records |-> <<>>, tempDir |-> NoPath,
             sourceFile |-> NoPath, materialized |-> FALSE]

\* No Route or Events under observation, and an empty temp area.
SinkIdle ==
  /\ held = NoObject
  /\ refs = <<>>
  /\ disk = {}
  /\ diskBefore = {}
  /\ dirs = 0
  /\ ops = <<>>

NoDoc == [type |-> "", features |-> <<>>]
NoDecoded == [err |-> "none", types |-> <<>>, rows |-> <<>>]
NoEncoded == [err |-> "none", doc |-> NoDoc]

\* No document given to the GeoJSON codec.
NoSourceFiles == [Point |-> <<>>, Segment |-> <<>>, LineString |-> <<>>]

CodecIdle ==
  /\ doc = NoDoc
  /\ gpc = "idle"
  /\ valid = "none"
  /\ decoded = NoDecoded
  /\ encoded = NoEncoded

\* The route batch before a route is added.
BatchIdle ==
  /\ bpc = "idle"
  /\ added = <<>>
  /\ batchRoutes = <<>>
  /\ sourceFiles = NoSourceFiles
  /\ recordRefs = <<>>
  /\ tempDirs = {}

Init ==
  RepoInit /\ EngineIdle /\ TransformIdle /\ FlightIdle /\ SinkIdle /\ CodecIdle
    /\ BatchIdle


\* ------------------------------------------------------ SyncFromGeoJSON
HasPrev(p) == prev[p].err = "nil"

\* SyncFromGeoJSON: decode the document's features into routes, add each to
\* the batch, and enter mergeWithExisting.
SyncFromGeoJSON(p) ==
  /\ pc[p] = "idle"
  /\ calls < MaxSyncs
  /\ \E payload \in Payloads : incoming' = [incoming EXCEPT ![p] = payload]
  /\ calls' = calls + 1
  /\ pc' = [pc EXCEPT ![p] = "merge"]
  /\ result' = [result EXCEPT ![p] = "none"]
  /\ before' = [before EXCEPT ![p] =
                 [call |-> calls + 1, exists |-> tableExists, rows |-> catalog]]
  /\ stamp' = [stamp EXCEPT ![p] = 0]
  /\ prev' = [prev EXCEPT ![p] = NoPrev]
  /\ UNCHANGED <<tableExists, catalog, files, clock, txn, got>>
  /\ UNCHANGED nonRepoVars

\* nanoStamp := time.Now().UnixNano(); latestLRS, err := r.GetLatest(ctx, "")
ReadLatest(p) ==
  /\ pc[p] = "merge"
  /\ clock' = clock + 1
  /\ stamp' = [stamp EXCEPT ![p] = clock + 1]
  /\ \E r \in GetLatestResults(tableExists, catalog, "") :
       prev' = [prev EXCEPT ![p] = r]
  /\ pc' = [pc EXCEPT ![p] = "export_point"]
  /\ UNCHANGED <<tableExists, catalog, files, calls, incoming, txn, result,
                 before, got>>
  /\ UNCHANGED nonRepoVars

\* The rows COPY writes to the merged file of one kind: the previous file
\* merged with the batch when there is a previous version, else the batch.
MergedRows(p, prevFile, cur) ==
  IF HasPrev(p) THEN MergeQuery(files[prevFile], cur) ELSE cur

ExportPoint(p) ==
  /\ pc[p] = "export_point"
  /\ HasPrev(p) => prev[p].route.Point \in DOMAIN files
  /\ files' = files @@ (PointFile(stamp[p]) :>
                 MergedRows(p, prev[p].route.Point, ViewName(incoming[p])))
  /\ pc' = [pc EXCEPT ![p] = "export_segment"]
  /\ UNCHANGED <<tableExists, catalog, clock, calls, incoming, stamp, prev,
                 txn, result, before, got>>
  /\ UNCHANGED nonRepoVars

ExportSegment(p) ==
  /\ pc[p] = "export_segment"
  /\ HasPrev(p) => prev[p].route.Segment \in DOMAIN files
  /\ files' = files @@ (SegmentFile(stamp[p]) :>
                 MergedRows(p, prev[p].route.Segment, SegmentQuery(incoming[p])))
  /\ pc' = [pc EXCEPT ![p] = "export_linestring"]
  /\ UNCHANGED <<tableExists, catalog, clock, calls, incoming, stamp, prev,
                 txn, result, before, got>>
  /\ UNCHANGED nonRepoVars

ExportLinestring(p) ==
  /\ pc[p] = "export_linestring"
  /\ HasPrev(p) => prev[p].route.LineString \in DOMAIN files
  /\ files' = files @@ (LinestringFile(stamp[p]) :>
                 MergedRows(p, prev[p].route.LineString, LinestringQuery(incoming[p])))
  /\ pc' = [pc EXCEPT ![p] = "begin"]
  /\ UNCHANGED <<tableExists, catalog, clock, calls, incoming, stamp, prev,
                 txn, result, before, got>>
  /\ UNCHANGED nonRepoVars

\* r.db.BeginTx and CREATE TABLE IF NOT EXISTS: the transaction's snapshot is
\* taken by its first statement.  Creating the table waits for another
\* transaction that is creating it.
BeginTx(p) ==
  /\ pc[p] = "begin"
  /\ ~\E q \in Syncers \ {p} : txn[q].open /\ txn[q].created
  /\ txn' = [txn EXCEPT ![p] =
               [open |-> TRUE, exists |-> TRUE, rows |-> catalog,
                base |-> Len(catalog), upd |-> {}, created |-> ~tableExists,
                nextVersion |-> 0]]
  /\ pc' = [pc EXCEPT ![p] = "update"]
  /\ UNCHANGED <<tableExists, catalog, files, clock, calls, incoming, stamp,
                 prev, result, before, got>>
  /\ UNCHANGED nonRepoVars

\* The rows another open transaction has updated and not yet committed.
LockedBy(q) == IF txn[q].open THEN txn[q].upd ELSE {}

\* Mutant: the UPDATE runs on the handle, outside the transaction, and is
\* committed at once.
UpdateEndDate_Autocommit(p) ==
  /\ pc[p] = "update"
  /\ catalog' = UpdateEndDateRows(catalog)
  /\ txn' = [txn EXCEPT ![p].rows = UpdateEndDateRows(txn[p].rows)]
  /\ pc' = [pc EXCEPT ![p] = "version"]
  /\ UNCHANGED <<tableExists, files, clock, calls, incoming, stamp,
                 prev, result, before, got>>
  /\ UNCHANGED nonRepoVars

\* UPDATE ... SET END_DATE = CURRENT_DATE WHERE END_DATE IS NULL, in the
\* transaction.  It waits for the holder of a row it wants; it succeeds when
\* none of its rows was changed by a commit made after its snapshot.
UpdateEndDate(p) ==
  /\ pc[p] = "update"
  /\ LET want == ActiveRows(txn[p].rows)
     IN /\ \A q \in Syncers \ {p} : LockedBy(q) \cap want = {}
        /\ \A i \in want : catalog[i].END_DATE = NULL
        /\ txn' = [txn EXCEPT ![p].rows = UpdateEndDateRows(txn[p].rows),
                              ![p].upd = want]
  /\ pc' = [pc EXCEPT ![p] = "version"]
  /\ UNCHANGED <<tableExists, catalog, files, clock, calls, incoming, stamp,
                 prev, result, before, got>>
  /\ UNCHANGED nonRepoVars

\* tx.QueryRowContext(... MAX(VERSION) ...).Scan(&nextVersion)
QueryNextVersion(p) ==
  /\ pc[p] = "version"
  /\ txn' = [txn EXCEPT ![p].nextVersion = NextVersion(txn[p].rows)]
  /\ pc' = [pc EXCEPT ![p] = "insert"]
  /\ UNCHANGED <<tableExists, catalog, files, clock, calls, incoming, stamp,
                 prev, result, before, got>>
  /\ UNCHANGED nonRepoVars

\* tx.ExecContext(ctx, insertQuery, nextVersion, mergedPointFile, ...)
InsertCatalog(p) ==
  /\ pc[p] = "insert"
  /\ txn' = [txn EXCEPT ![p].rows =
               Append(txn[p].rows, CatalogRow(txn[p].nextVersion, stamp[p]))]
  /\ pc' = [pc EXCEPT ![p] = "commit"]
  /\ UNCHANGED <<tableExists, catalog, files, clock, calls, incoming, stamp,
                 prev, result, before, got>>
  /\ UNCHANGED nonRepoVars

\* The committed table once transaction t commits: the rows it updated as the
\* transaction left them, the other rows as they are now, then its inserts.
CommitRows(cat, t) ==
  [i \in 1..Len(cat) |-> IF i \in t.upd THEN t.rows[i] ELSE cat[i]]
  \o SubSeq(t.rows, t.base + 1, Len(t.rows))

\* tx.Commit() returning nil.
Commit(p) ==
  /\ pc[p] = "commit"
  /\ catalog' = CommitRows(catalog, txn[p])
  /\ tableExists' = TRUE
  /\ txn' = [txn EXCEPT ![p] = NoTxn]
  /\ result' = [result EXCEPT ![p] = "nil"]
  /\ pc' = [pc EXCEPT ![p] = "idle"]
  /\ UNCHANGED <<files, clock, calls, incoming, stamp, prev, before, got>>
  /\ UNCHANGED nonRepoVars

\* Mutant: the statements of a failed call stay applied.
Rollback_Missing(cat, t) == CommitRows(cat, t)

\* defer tx.Rollback(): the committed table after an error return.
Rollback(cat, t) == cat

\* The steps of mergeWithExisting that can return an error.
FailSteps == {"merge", "export_point", "export_segment", "export_linestring",
              "begin", "update", "version", "insert", "commit"}

\* The error each step returns.
ErrorOf(step) ==
  CASE step = "merge" -> "failed to get db connection"
    [] step = "export_point" -> "failed to export merged point parquet"
    [] step = "export_segment" -> "failed to export merged segment parquet"
    [] step = "export_linestring" -> "failed to export merged linestring parquet"
    [] step = "begin" -> "failed to begin transaction"
    [] step = "update" -> "failed to update previous catalog entries"
    [] step = "version" -> "failed to get next version"
    [] step = "insert" -> "failed to insert catalog record"
    [] step = "commit" -> "failed to commit transaction"

\* An error return from any step: files already written stay, the open
\* transaction, if any, is rolled back.
Fail(p) ==
  /\ pc[p] \in FailSteps
  /\ catalog' = Rollback(catalog, txn[p])
  /\ txn' = [txn EXCEPT ![p] = NoTxn]
  /\ result' = [result EXCEPT ![p] = ErrorOf(pc[p])]
  /\ pc' = [pc EXCEPT ![p] = "idle"]
  /\ UNCHANGED <<tableExists, files, clock, calls, incoming, stamp, prev,
                 before, got>>
  /\ UNCHANGED nonRepoVars

\* ------------------------------------------------------------- GetLatest
\* A caller's GetLatest(routeID): one query on the committed table.
GetLatest(routeID) ==
  /\ got' \in GetLatestResults(tableExists, catalog, routeID)
  /\ UNCHANGED <<tableExists, catalog, files, clock, calls, pc, incoming,
                 stamp, prev, txn, result, before>>
  /\ UNCHANGED nonRepoVars

\* ------------------------------------------------------- specifications
SyncStep(p) ==
  \/ SyncFromGeoJSON(p)
  \/ ReadLatest(p)
  \/ ExportPoint(p)
  \/ ExportSegment(p)
  \/ ExportLinestring(p)
  \/ BeginTx(p)
  \/ UpdateEndDate(p)
  \/ QueryNextVersion(p)
  \/ InsertCatalog(p)
  \/ Commit(p)
  \/ Fail(p)

\* Syncs and reads issued concurrently.
Next ==
  \/ \E p \in Syncers : SyncStep(p)
  \/ \E routeID \in Routes : GetLatest(routeID)

Spec == Init /\ [][Next]_vars

\* Syncs issued one after the other: a call begins and runs while no other
\* call is in progress.  No reader takes part.
SeqSyncFromGeoJSON(p) ==
  /\ \A q \in Syncers : pc[q] = "idle"
  /\ SyncFromGeoJSON(p)

SeqNext ==
  \E p \in Syncers :
    \/ SeqSyncFromGeoJSON(p)
    \/ ReadLatest(p)
    \/ ExportPoint(p)
    \/ ExportSegment(p)
    \/ ExportLinestring(p)
    \/ BeginTx(p)
    \/ UpdateEndDate(p)
    \/ QueryNextVersion(p)
    \/ InsertCatalog(p)
    \/ Commit(p)
    \/ Fail(p)

SeqSpec == Init /\ [][SeqNext]_vars


\* ======================================================== M-value engine
\* pkg/mvalue: CalculatePointsMValue(ctx, lrs, points).
\*
\* Coordinates are integers on an even grid and every route segment is
\* axis-parallel or diagonal, so the foot of a perpendicular is a grid point
\* and the geometry is exact.  A length is carried as its square.  An
\* interpolated M-value is the real number base + slope * sqrt(num / den),
\* carried as those four integers and compared exactly.  M-values count
\* thousandths of the M unit (metres on a route measured in kilometres).

MaxEvents == 2

V(lat, lon, m) == [LAT |-> lat, LON |-> lon, MVAL |-> m]

\* A route that turns back on itself, and a straight one.
Lines ==
  { <<V(0, 0, 0), V(4, 4, 40), V(4, 0, 80)>>,
    <<V(0, 0, 0), V(4, 0, 40), V(8, 0, 80)>> }

RouteGeometry == [ROUTEID : Routes, line : Lines]
FirstGeometry == [ROUTEID |-> "R1", line |-> <<V(0, 0, 0), V(4, 4, 40), V(4, 0, 80)>>]

\* The routes the engine is given: one route, or a batch of two.
RouteTables ==
  {<<g>> : g \in RouteGeometry} \cup {<<FirstGeometry, g>> : g \in RouteGeometry}

EventPoints == {<<0, 0>>, <<2, 2>>, <<4, 2>>, <<4, 0>>, <<6, 2>>}
Event == {[ROUTEID |-> r, LAT |-> xy[1], LON |-> xy[2]] :
            r \in Routes, xy \in EventPoints}

EventSeqs(n) == UNION {[1..k -> Event] : k \in 1..n}

\* The record batches of an LRSEvents: none, one batch, or two batches.
EventBatches ==
  {<<>>}
    \cup {<<es>> : es \in EventSeqs(MaxEvents)}
    \cup UNION {{<<a, b>> : b \in {c \in EventSeqs(MaxEvents - 1) :
                               Len(a) + Len(c) <= MaxEvents}} :
                 a \in EventSeqs(MaxEvents - 1)}

\* ------------------------------------------------------------ the tables
RECURSIVE Flatten(_)
Flatten(batches) ==
  IF batches = <<>> THEN <<>> ELSE Head(batches) \o Flatten(Tail(batches))

\* points_table: the rows of all batches in arrival order, numbered from 1.
PointsTable(batches) ==
  LET rows == Flatten(batches)
  IN  [i \in 1..Len(rows) |->
         [point_id |-> i, ROUTEID |-> rows[i].ROUTEID,
          LAT |-> rows[i].LAT, LON |-> rows[i].LON]]

\* lrs_line_table: one linestring per route of lrs.
LinestringTable(routes) ==
  [i \in 1..Len(routes) |-> [ROUTEID |-> routes[i].ROUTEID, linestr |-> routes[i].line]]

\* The segments of one route: each vertex paired with the next one.
SegmentsOf(g) ==
  [k \in 1..(Len(g.line) - 1) |->
     [ROUTEID |-> g.ROUTEID, VERTEX_SEQ |-> k - 1,
      LAT |-> g.line[k].LAT, LON |-> g.line[k].LON, MVAL |-> g.line[k].MVAL,
      LAT1 |-> g.line[k + 1].LAT, LON1 |-> g.line[k + 1].LON,
      MVAL1 |-> g.line[k + 1].MVAL]]

\* lrs_segment_table: the segments of every route of lrs.
RECURSIVE SegmentTable(_)
SegmentTable(routes) ==
  IF routes = <<>> THEN <<>>
  ELSE SegmentsOf(Head(routes)) \o SegmentTable(Tail(routes))

\* -------------------------------------------------------------- geometry
Min(a, b) == IF a <= b THEN a ELSE b
Max(a, b) == IF a >= b THEN a ELSE b

\* The square of ST_Distance / ST_Length between two points.
Dist2(x1, y1, x2, y2) == (x2 - x1) * (x2 - x1) + (y2 - y1) * (y2 - y1)

\* The point of the segment from a to b nearest to (x, y).
NearestOnSegment(x, y, a, b) ==
  LET dx == b.LAT - a.LAT
      dy == b.LON - a.LON
      den == dx * dx + dy * dy
      num == (x - a.LAT) * dx + (y - a.LON) * dy
  IN  IF den = 0 \/ num <= 0 THEN <<a.LAT, a.LON>>
      ELSE IF num >= den THEN <<b.LAT, b.LON>>
      ELSE <<a.LAT + (dx * num) \div den, a.LON + (dy * num) \div den>>

\* ST_ShortestLine(point, linestr) followed by ST_EndPoint and ST_Length: the
\* nearest point of the linestring and its distance.  Where several points of
\* the linestring are equally near, any of them may be returned.
PointOnLine(x, y, linestr) ==
  LET feet == {NearestOnSegment(x, y, linestr[k], linestr[k + 1]) :
                 k \in 1..(Len(linestr) - 1)}
      near == {f \in feet :
                 \A g \in feet : Dist2(x, y, f[1], f[2]) <= Dist2(x, y, g[1], g[2])}
  IN  {[lambert_vertex |-> f, dist_to_line |-> Dist2(x, y, f[1], f[2])] : f \in near}

\* The join condition of nearest_vertex: the vertex lies in the bounding box
\* of the segment.
InBoundingBox(v, s) ==
  /\ v[2] <= Max(s.LON, s.LON1) /\ v[2] >= Min(s.LON, s.LON1)
  /\ v[1] <= Max(s.LAT, s.LAT1) /\ v[1] >= Min(s.LAT, s.LAT1)

\* SQL NULL in the m_val column (no real number has den = 0), and in the
\* dist column (no squared length is negative).
NullMVal == [base |-> 0, slope |-> 0, num |-> 0, den |-> 0]
NullDist == -1

\* The interpolated M-value of a vertex on a segment; NULL on a segment of
\* length zero (NULLIF).
Interpolate(s, v) ==
  LET den == Dist2(s.LAT, s.LON, s.LAT1, s.LON1)
  IN  IF den = 0 THEN NullMVal
      ELSE [base |-> s.MVAL, slope |-> s.MVAL1 - s.MVAL,
            num |-> Dist2(s.LAT, s.LON, v[1], v[2]), den |-> den]

Zero == [base |-> 0, slope |-> 0, num |-> 0, den |-> 1]

\* ------------------------------------------------------------- the query
\* The rows of lrs_line_table joined to a point on ROUTEID (shortest_to_lrs).
MatchingLines(p, lineTable) ==
  {b \in 1..Len(lineTable) : lineTable[b].ROUTEID = p.ROUTEID}

\* point_on_line for one point: a nearest point of every matching linestring.
PointOnLineChoices(p, lineTable) ==
  LET B == MatchingLines(p, lineTable)
      all == UNION {PointOnLine(p.LAT, p.LON, lineTable[b].linestr) : b \in B}
  IN  {f \in [B -> all] :
         \A b \in B : f[b] \in PointOnLine(p.LAT, p.LON, lineTable[b].linestr)}

\* nearest_vertex and interpolated for one point: one row per projected
\* vertex and segment of the same ROUTEID whose bounding box holds the vertex.
Interpolated(p, onLine, segTable) ==
  {[line |-> b, segment |-> k,
    dist |-> onLine[b].dist_to_line,
    m_val |-> Interpolate(segTable[k], onLine[b].lambert_vertex)] :
     <<b, k>> \in {bk \in (DOMAIN onLine) \X (1..Len(segTable)) :
                     /\ segTable[bk[2]].ROUTEID = p.ROUTEID
                     /\ InBoundingBox(onLine[bk[1]].lambert_vertex, segTable[bk[2]])}}

\* best_interpolated: DISTINCT ON (point_id) ... ORDER BY point_id, dist ASC
\* keeps one row of the point, one of least dist; which one among equals is
\* not determined.
BestInterpolated(rows) == {r \in rows : \A q \in rows : r.dist <= q.dist}

\* The rows best_interpolated may hold for a point, as (m_val, dist) pairs.
BestOf(p, routes) ==
  UNION {{[m_val |-> r.m_val, dist |-> r.dist] :
            r \in BestInterpolated(Interpolated(p, f, SegmentTable(routes)))} :
         f \in PointOnLineChoices(p, LinestringTable(routes))}

\* The point has no row in best_interpolated under some choice of the
\* nearest points.
MayHaveNoBest(p, routes) ==
  \E f \in PointOnLineChoices(p, LinestringTable(routes)) :
    Interpolated(p, f, SegmentTable(routes)) = {}

\* The columns of a point that pass through: p.* EXCLUDE (MVAL, point_id).
Passthrough(p) == [ROUTEID |-> p.ROUTEID, LAT |-> p.LAT, LON |-> p.LON]

ResultRow(p, m, d) ==
  [ROUTEID |-> p.ROUTEID, LAT |-> p.LAT, LON |-> p.LON, MVAL |-> m, dist_to_line |-> d]

\* The final SELECT with an inner join: a point without a best row is lost.
JoinBest_Inner(p, routes) ==
  {<<ResultRow(p, IF i.m_val = NullMVal THEN Zero ELSE i.m_val, i.dist)>> :
     i \in BestOf(p, routes)}
    \cup (IF MayHaveNoBest(p, routes) THEN {<<>>} ELSE {})

\* The final SELECT without COALESCE: a missing m_val stays NULL.
JoinBest_NoCoalesce(p, routes) ==
  {<<ResultRow(p, i.m_val, i.dist)>> : i \in BestOf(p, routes)}
    \cup (IF MayHaveNoBest(p, routes) THEN {<<ResultRow(p, NullMVal, NullDist)>>} ELSE {})

\* The final SELECT for one point: points_table LEFT JOIN best_interpolated,
\* COALESCE(m_val, 0) as MVAL, dist as dist_to_line.
JoinBest(p, routes) ==
  {<<ResultRow(p, IF i.m_val = NullMVal THEN Zero ELSE i.m_val, i.dist)>> :
     i \in BestOf(p, routes)}
    \cup (IF MayHaveNoBest(p, routes) THEN {<<ResultRow(p, Zero, NullDist)>>} ELSE {})

\* The result sets the query may return: the rows of each point in turn
\* (ORDER BY point_id).
RECURSIVE QueryResults(_, _)
QueryResults(table, routes) ==
  IF table = <<>> THEN {<<>>}
  ELSE {h \o t : h \in JoinBest(Head(table), routes),
                 t \in QueryResults(Tail(table), routes)}

\* What CalculatePointsMValue may return.
CalculateResults(routes, batches) ==
  IF Len(batches) = 0
    THEN {[err |-> "points records are empty", rows |-> <<>>]}
    ELSE {IF rows = <<>>
            THEN [err |-> "expected records, got 0", rows |-> <<>>]
            ELSE [err |-> "nil", rows |-> rows] :
          rows \in QueryResults(PointsTable(batches), routes)}

\* ---------------------------------------------------------------- actions
EngineInit ==
  /\ lrs \in RouteTables
  /\ points \in EventBatches
  /\ out = NoOut

CalculatePointsMValue ==
  /\ out = NoOut
  /\ out' \in CalculateResults(lrs, points)
  /\ UNCHANGED <<lrs, points>>
  /\ UNCHANGED nonEngineVars

\* The repository before any call, with nothing in it.
RepoIdle == RepoInit /\ tableExists = FALSE

MInit ==
  RepoIdle /\ EngineInit /\ TransformIdle /\ FlightIdle /\ SinkIdle /\ CodecIdle
    /\ BatchIdle
MNext == CalculatePointsMValue
MSpec == MInit /\ [][MNext]_vars

\* ============================================================ projection
\* Transform (pkg/projection) registers the batches of a geometry as a view,
\* runs one query that replaces the coordinate columns by the coordinates
\* of ST_Transform(ST_Point(..)), and wraps the result in a geometry of the
\* input's type.  A row is written [LAT, LON, ATTR]: its two coordinates
\* and everything else it carries; lonCol is the name the longitude column
\* has in the batches' schema.

\* The most rows a geometry given to Transform holds.
MaxRows == 3
\* The most rows DuckDB hands back in one result batch (its vector size,
\* 2048 in the build, kept small here).
ChunkRows == 2

LRS == "lrs"
POINTS == "points"
EPSG4326 == "EPSG:4326"
LAMBERT_WKT == "LAMBERT"
CRSs == {EPSG4326, LAMBERT_WKT}

CoordRows ==
  { [LAT |-> 1, LON |-> 2, ATTR |-> "a"],
    [LAT |-> 2, LON |-> 2, ATTR |-> "b"],
    [LAT |-> 3, LON |-> 1, ATTR |-> "c"] }

RowSeqs(n) == UNION { [1..k -> CoordRows] : k \in 0..n }

\* The batch lists a geometry can hold: none, one batch, or two.
RecordBatches ==
  {<<>>}
    \cup { <<a>> : a \in RowSeqs(MaxRows) }
    \cup UNION { { <<a, c>> : c \in RowSeqs(MaxRows - Len(a)) } :
                 a \in RowSeqs(MaxRows) }

\* Geometries of both types, in both reference systems, whose longitude
\* column carries the name the constructors use (LON) or the name the
\* query of Transform uses (LONG).
Geometries ==
  [kind : {LRS, POINTS}, crs : CRSs, lonCol : {"LON", "LONG"},
   records : RecordBatches]

\* ST_Transform(ST_Point(x, y), origin, target): the X and Y of the
\* result.  Equal systems leave the point alone.  The geographic system
\* takes and gives (latitude, longitude), the projected one (easting,
\* northing); a degree counts ten units of the projected system.
Project(origin, target, x, y) ==
  IF origin = target THEN <<x, y>>
  ELSE IF origin = EPSG4326 THEN <<10 * y, 10 * x>>
  ELSE <<y \div 10, x \div 10>>

\* The query for one row: the point is built from (LONG, LAT) when the
\* axis order is inverted and from (LAT, LONG) otherwise; ST_X of the
\* result is written to the longitude column and ST_Y to the latitude
\* column; every other column is selected as it is.
TransformShape(row, origin, target, inverted) ==
  IF inverted
    THEN Project(origin, target, row.LON, row.LAT)
    ELSE Project(origin, target, row.LAT, row.LON)

TransformRow(row, origin, target, inverted) ==
  LET shape == TransformShape(row, origin, target, inverted)
  IN  [LAT |-> shape[2], LON |-> shape[1], ATTR |-> row.ATTR]

TransformQuery(rows, origin, target, inverted) ==
  [i \in 1..Len(rows) |-> TransformRow(rows[i], origin, target, inverted)]

\* The sizes the first result batch can have when the query gives n rows.
FirstBatchSizes(n) == { k \in 1..n : k <= ChunkRows }

\* What Transform can return.  Without a batch records[0] panics; the
\* query names the longitude column LONG and fails on any other schema;
\* the loop over the result batches returns from inside its first round,
\* so the geometry holds the first result batch only, and a result without
\* batches leaves the loop and returns neither a geometry nor an error.
TransformResults(obj, crs, inverted) ==
  IF obj.records = <<>> THEN {[returned |-> TRUE, err |-> "panic", geometry |-> NoGeometry]}
  ELSE IF obj.lonCol # "LONG" THEN {[returned |-> TRUE, err |-> "query", geometry |-> NoGeometry]}
  ELSE LET rows == TransformQuery(Flatten(obj.records), obj.crs, crs, inverted)
       IN  IF rows = <<>>
             THEN {[returned |-> TRUE, err |-> "none", geometry |-> NoGeometry]}
           ELSE { [returned |-> TRUE, err |-> "none",
                   geometry |-> [kind |-> obj.kind, crs |-> crs,
                                 lonCol |-> "LONG",
                                 records |-> <<SubSeq(rows, 1, k)>>]] :
                  k \in FirstBatchSizes(Len(rows)) }

TransformInit ==
  /\ tIn \in [obj : Geometries, crs : CRSs, inverted : BOOLEAN]
  /\ tOut = NoTransformed

Transform ==
  /\ tOut = NoTransformed
  /\ tOut' \in TransformResults(tIn.obj, tIn.crs, tIn.inverted)
  /\ UNCHANGED tIn
  /\ UNCHANGED nonTransformVars

TInit ==
  RepoIdle /\ EngineIdle /\ TransformInit /\ FlightIdle /\ SinkIdle /\ CodecIdle
    /\ BatchIdle
TNext == Transform
TSpec == TInit /\ [][TNext]_vars

\* ============================================================== exchange
\* handleCalculateMValue (pkg/flight) reads the batches of a stream, spills
\* them to files when the row count reaches maxBatchSize, builds an
\* LRSEvents from the files or from memory, brings it to the Lambert
\* system, loads the routes its rows name, calculates and writes the
\* result.  A batch is a sequence of rows [ROUTEID, LAT, LON]; the schema
\* says what the two coordinate columns are called on the wire.

Schemas ==
  { [lat |-> "LAT", lon |-> "LON"],
    [lat |-> "LAT", lon |-> "LONG"],
    [lat |-> "TO_STA_LAT", lon |-> "TO_STA_LONG"] }

ExchangePoints == {<<2, 2>>, <<4, 0>>}
ExchangeEvent == {e \in Event : <<e.LAT, e.LON>> \in ExchangePoints}
ExchangeSeqs(n) == UNION {[1..k -> ExchangeEvent] : k \in 0..n}

\* What a client can send before it half-closes: nothing, one batch, or
\* two; a batch may have no rows.
ExchangeBatches ==
  {<<>>}
    \cup {<<a>> : a \in ExchangeSeqs(MaxEvents)}
    \cup UNION {{<<a, c>> : c \in ExchangeSeqs(MaxEvents - Len(a))} :
                a \in ExchangeSeqs(MaxEvents)}

Requests == [crs : CRSs, schema : Schemas, batches : ExchangeBatches]

\* The spill threshold, 1000 * 1000 rows in the build: counted here so
\* that a request can reach it with its first row, with its last, or not
\* at all.
Thresholds == 1..(MaxEvents + 1)

\* The routes in the files of the active version: tables with one row
\* per route id.
StoredTables ==
  {t \in RouteTables : \A i, j \in 1..Len(t) : t[i].ROUTEID = t[j].ROUTEID => i = j}

\* The catalogs the handler can find: no table, a table without an
\* active row, or one active version.
Catalogs ==
  {[exists |-> FALSE, catalog |-> <<>>, routes |-> <<>>],
   [exists |-> TRUE, catalog |-> <<>>, routes |-> <<>>]}
    \cup {[exists |-> TRUE, catalog |-> <<CatalogRow(1, 1)>>, routes |-> t] :
          t \in StoredTables}

\* ------------------------------------------------------- building events
EventsError(msg) == [NoEvents EXCEPT !.err = msg]

\* NewLRSEvents: the default column names, checked against the schema of
\* the first batch when there is one.
NewLRSEvents(recs, schema, crs) ==
  IF Len(recs) > 0 /\ (schema.lat # "LAT" \/ schema.lon # "LON")
    THEN EventsError("required column not found in records")
    ELSE [err |-> "nil", crs |-> crs, schema |-> schema, latCol |-> "LAT",
          lonCol |-> "LON", records |-> recs, file |-> <<>>,
          materialized |-> FALSE]

LatNames == <<"LAT", "TO_STA_LAT", "latitude", "lat">>
LonNames == <<"LON", "TO_STA_LONG", "longitude", "lon">>

\* detectColumn: the first of the names the schema has, else the first name.
DetectColumn(cols, names) ==
  IF \E i \in 1..Len(names) : names[i] \in cols
    THEN names[CHOOSE i \in 1..Len(names) :
                 /\ names[i] \in cols
                 /\ \A j \in 1..(i - 1) : names[j] \notin cols]
    ELSE names[1]

\* NewLRSEventsFromFile: column names detected from the file's schema,
\* nothing checked, nothing loaded.
NewLRSEventsFromFile(file, schema, crs) ==
  [err |-> "nil", crs |-> crs, schema |-> schema,
   latCol |-> DetectColumn({"ROUTEID", schema.lat, schema.lon}, LatNames),
   lonCol |-> DetectColumn({"ROUTEID", schema.lat, schema.lon}, LonNames),
   records |-> <<>>, file |-> file, materialized |-> TRUE]

\* LoadToBuffer reads the file back into memory.
LoadToBuffer(ev) == [ev EXCEPT !.records = ev.file]

\* Mutant: only the first spill file is copied to the merged file.
MergeParquetFiles_First(spilled) == <<Head(spilled)>>

\* MergeParquetFiles: the batches of every file, in the order written.
MergeParquetFiles(spilled) == <<Flatten(spilled)>>

\* The events as the geometry Transform is given, and its rows back.
AsPoints(ev) ==
  [kind |-> POINTS, crs |-> ev.crs, lonCol |-> ev.schema.lon,
   records |-> [b \in 1..Len(ev.records) |->
                  [i \in 1..Len(ev.records[b]) |->
                     [LAT |-> ev.records[b][i].LAT, LON |-> ev.records[b][i].LON,
                      ATTR |-> ev.records[b][i].ROUTEID]]]]

AsEvents(recs) ==
  [b \in 1..Len(recs) |->
     [i \in 1..Len(recs[b]) |->
        [ROUTEID |-> recs[b][i].ATTR, LAT |-> recs[b][i].LAT,
         LON |-> recs[b][i].LON]]]

\* Events outside the Lambert system go through Transform, and its rows,
\* whose longitude column is LONG, into NewLRSEvents.
TransformEvents(ev) ==
  IF ev.crs = LAMBERT_WKT THEN {ev}
  ELSE IF ev.schema.lat # "LAT" THEN {EventsError("query")}
  ELSE { IF t.err # "none" THEN EventsError(t.err)
         ELSE IF t.geometry = NoGeometry THEN EventsError("panic")
         ELSE NewLRSEvents(AsEvents(t.geometry.records),
                           [lat |-> "LAT", lon |-> t.geometry.lonCol],
                           LAMBERT_WKT) :
         t \in TransformResults(AsPoints(ev), LAMBERT_WKT, FALSE) }

\* GetRouteIDs: the route ids of the rows in memory.
GetRouteIDs(ev) ==
  {Flatten(ev.records)[i].ROUTEID : i \in 1..Len(Flatten(ev.records))}

\* The check that the events name a route at all.
RouteIDsCheck_Skipped(ev) == ev
RouteIDsCheck(ev) ==
  IF GetRouteIDs(ev) = {} THEN EventsError("no ROUTEID found in records") ELSE ev

\* The handler from the end of the stream to the route ids: with spill
\* files the residual batches are flushed, the files merged and the
\* events built from the merged file; without, from the batches in memory.
ReceiveEvents(spilled, recs, req) ==
  LET built == IF spilled # <<>>
                 THEN LoadToBuffer(NewLRSEventsFromFile(
                        MergeParquetFiles(spilled \o recs), req.schema, req.crs))
               ELSE IF recs = <<>> THEN EventsError("no records received")
               ELSE NewLRSEvents(recs, req.schema, req.crs)
  IN  IF built.err # "nil" THEN {built}
      ELSE {IF ev.err # "nil" THEN ev ELSE RouteIDsCheck(ev) :
            ev \in TransformEvents(built)}

\* ---------------------------------------------------------- the routes
\* The ids for which GetLatest gives a route.  GetLatest looks for an
\* active catalog row and never at the id.
LoadedIDs(cat, ids) ==
  {id \in ids : \E g \in GetLatestResults(cat.exists, cat.catalog, id) :
                  g.err = "nil"}

\* The rows the batch of loaded routes selects from the files.
LoadedRows(cat, ids) == SelectSeq(cat.routes, LAMBDA g : g.ROUTEID \in ids)

\* CalculatePointsMValue on the batch and the events, as the handler
\* reports it.  The query names the coordinate columns the events carry.
Answers(cat, ids, ev) ==
  IF ev.latCol # ev.schema.lat \/ ev.lonCol # ev.schema.lon
    THEN {[err |-> "failed to calculate m-values", rows |-> <<>>]}
    ELSE {IF r.err = "nil" THEN r
          ELSE [err |-> "failed to calculate m-values", rows |-> <<>>] :
          r \in CalculateResults(LoadedRows(cat, ids), ev.records)}

\* ------------------------------------------------------------ references
\* Release on each of the n batches held in memory, the last n received.
ReleaseHeld(ret, n) ==
  [i \in 1..Len(ret) |-> IF i > Len(ret) - n THEN ret[i] - 1 ELSE ret[i]]

\* Mutant: the batches written to spill files are not released.
ReleaseSpilled_Kept(ret, n) == ret

\* The loop that releases the batches just written to spill files.
ReleaseSpilled(ret, n) == ReleaseHeld(ret, n)

\* The handler returns and its deferred calls run: events.Release releases
\* the batches the events were built on, those held in memory.
Return(ret, defs, n) ==
  IF "events.Release" \in defs THEN ReleaseHeld(ret, n) ELSE ret

\* Mutant: the loop over the reader is left while batches are to come.
StreamEnded_Early == TRUE

\* reader.Next() has returned false: the client has sent its last batch.
StreamEnded == pending = <<>>

\* ---------------------------------------------------------------- actions
FlightInit ==
  /\ request \in Requests
  /\ maxBatchSize \in Thresholds
  /\ served \in Catalogs
  /\ xpc = "recv"
  /\ pending = request.batches
  /\ records = <<>>
  /\ totalSize = 0
  /\ currentFiles = <<>>
  /\ events = NoEvents
  /\ routeBatch = {}
  /\ response = NoResponse
  /\ retained = <<>>
  /\ tempDir = TRUE
  /\ deferred = {"handler.Cleanup"}

\* One round of the loop over the reader: keep the batch, count its rows,
\* and at the threshold write every batch held to a file of its own.
RecvBatch ==
  /\ xpc = "recv"
  /\ pending # <<>>
  /\ LET recs == Append(records, Head(pending))
         size == totalSize + Len(Head(pending))
         ret == Append(retained, 1)
     IN  IF size >= maxBatchSize
           THEN /\ currentFiles' = currentFiles \o recs
                /\ records' = <<>>
                /\ totalSize' = 0
                /\ retained' = ReleaseSpilled(ret, Len(recs))
           ELSE /\ currentFiles' = currentFiles
                /\ records' = recs
                /\ totalSize' = size
                /\ retained' = ret
  /\ pending' = Tail(pending)
  /\ UNCHANGED <<request, maxBatchSize, served, xpc, events, routeBatch,
                 response, tempDir, deferred>>
  /\ UNCHANGED nonFlightVars

\* The stream has ended: with spill files the batches in memory are
\* written and released too; the events are built, and events built on the
\* batches in memory have their Release deferred.  An error ends the
\* exchange, and the deferred calls run.
EndOfStream ==
  /\ xpc = "recv"
  /\ StreamEnded
  /\ LET spilled == currentFiles # <<>>
         flushed == IF spilled THEN ReleaseSpilled(retained, Len(records))
                    ELSE retained
         defs == IF /\ ~spilled
                    /\ records # <<>>
                    /\ NewLRSEvents(records, request.schema, request.crs).err = "nil"
                   THEN deferred \cup {"events.Release"}
                   ELSE deferred
     IN  /\ currentFiles' = (IF spilled THEN currentFiles \o records ELSE currentFiles)
         /\ records' = (IF spilled THEN <<>> ELSE records)
         /\ \E ev \in ReceiveEvents(currentFiles, records, request) :
              /\ events' = ev
              /\ IF ev.err # "nil"
                   THEN /\ response' = [err |-> ev.err, rows |-> <<>>]
                        /\ xpc' = "done"
                        /\ retained' = Return(flushed, defs, Len(records'))
                        /\ tempDir' = (tempDir /\ "handler.Cleanup" \notin defs)
                        /\ deferred' = {}
                   ELSE /\ response' = response
                        /\ xpc' = "load"
                        /\ retained' = flushed
                        /\ tempDir' = tempDir
                        /\ deferred' = defs
  /\ UNCHANGED <<request, maxBatchSize, served, pending, totalSize, routeBatch>>
  /\ UNCHANGED nonFlightVars

\* The loop over the route ids: an id whose route does not load is
\* skipped; no route loaded ends the exchange.
LoadRoutes ==
  /\ xpc = "load"
  /\ routeBatch' = LoadedIDs(served, GetRouteIDs(events))
  /\ IF routeBatch' = {}
       THEN /\ response' = [err |-> "failed to load any LRS routes", rows |-> <<>>]
            /\ xpc' = "done"
            /\ retained' = Return(retained, deferred, Len(records))
            /\ tempDir' = (tempDir /\ "handler.Cleanup" \notin deferred)
            /\ deferred' = {}
       ELSE /\ response' = response
            /\ xpc' = "calculate"
            /\ UNCHANGED <<retained, tempDir, deferred>>
  /\ UNCHANGED <<request, maxBatchSize, served, pending, records, totalSize,
                 currentFiles, events>>
  /\ UNCHANGED nonFlightVars

\* Calculate and write every result batch to the stream; the handler
\* returns and the deferred calls run.
WriteResults ==
  /\ xpc = "calculate"
  /\ response' \in Answers(served, routeBatch, events)
  /\ xpc' = "done"
  /\ retained' = Return(retained, deferred, Len(records))
  /\ tempDir' = (tempDir /\ "handler.Cleanup" \notin deferred)
  /\ deferred' = {}
  /\ UNCHANGED <<request, maxBatchSize, served, pending, records, totalSize,
                 currentFiles, events, routeBatch>>
  /\ UNCHANGED nonFlightVars

XInit ==
  RepoIdle /\ EngineIdle /\ TransformIdle /\ FlightInit /\ SinkIdle /\ CodecIdle
    /\ BatchIdle
XNext ==
  \/ RecvBatch
  \/ EndOfStream
  \/ LoadRoutes
  \/ WriteResults
XSpec == XInit /\ [][XNext]_vars

\* ====================================================== sink and release
\* Sink writes the batches an LRSRoute or an LRSEvents holds in memory to a
\* parquet file in a temp directory of its own; Release gives the batches
\* back and removes the directory.  A path is <<"tmp", n>> for the n-th
\* temp directory and <<"tmp", n, "parquet">> for the file in it.

\* The most calls made on one object.
MaxCalls == 3

Kinds == {"LRSRoute", "LRSEvents"}

\* The batches of a new object: none, one or two, with at most one row.
HeldBatches == {recs \in RecordBatches : Len(Flatten(recs)) <= 1}

TempDir(n) == <<"tmp", n>>
TempFile(n) == <<"tmp", n, "parquet">>

\* os.RemoveAll: the directory goes with everything below it.
RemoveAll(paths, dir) ==
  {q \in paths : ~(Len(q) >= Len(dir) /\ SubSeq(q, 1, Len(dir)) = dir)}

\* LRSRoute.IsMaterialized asks for the point file, LRSEvents keeps a flag.
IsMaterialized(o) ==
  IF o.kind = "LRSRoute" THEN o.sourceFile # NoPath ELSE o.materialized

\* RecordBatch.Release on every batch the object holds.
ReleaseRecords(o, counts) ==
  [i \in 1..Len(counts) |-> IF i <= Len(o.records) THEN counts[i] - 1 ELSE counts[i]]

SinkInit ==
  /\ \E k \in Kinds, recs \in HeldBatches :
       /\ held = [NoObject EXCEPT !.kind = k, !.records = recs]
       /\ refs = [i \in 1..Len(recs) |-> 1]
  /\ disk = {}
  /\ diskBefore = {}
  /\ dirs = 0
  /\ ops = <<>>

\* Sink: the temp directory and the file are made first; an object
\* without a batch then fails; otherwise the batches are written and the
\* path recorded.  LRSEvents.Sink goes on to release its batches, drop
\* them and set its flag; LRSRoute.Sink ends there.
Sink ==
  /\ Len(ops) < MaxCalls
  /\ dirs' = dirs + 1
  /\ diskBefore' = disk
  /\ disk' = disk \cup {TempDir(dirs'), TempFile(dirs')}
  /\ IF held.records = <<>>
       THEN /\ held' = [held EXCEPT !.tempDir = TempDir(dirs')]
            /\ refs' = refs
            /\ ops' = Append(ops, [op |-> "Sink", err |-> "records are empty"])
       ELSE /\ ops' = Append(ops, [op |-> "Sink", err |-> "nil"])
            /\ IF held.kind = "LRSRoute"
                 THEN /\ held' = [held EXCEPT !.tempDir = TempDir(dirs'),
                                              !.sourceFile = TempFile(dirs')]
                      /\ refs' = refs
                 ELSE /\ held' = [held EXCEPT !.tempDir = TempDir(dirs'),
                                              !.sourceFile = TempFile(dirs'),
                                              !.records = <<>>,
                                              !.materialized = TRUE]
                      /\ refs' = ReleaseRecords(held, refs)
  /\ UNCHANGED nonSinkVars

\* Release: every batch held is released and the temp directory, when
\* there is one, removed; LRSEvents also drops its batches.
Release ==
  /\ Len(ops) < MaxCalls
  /\ refs' = ReleaseRecords(held, refs)
  /\ held' = IF held.kind = "LRSEvents" THEN [held EXCEPT !.records = <<>>]
             ELSE held
  /\ diskBefore' = disk
  /\ disk' = IF held.tempDir # NoPath THEN RemoveAll(disk, held.tempDir) ELSE disk
  /\ ops' = Append(ops, [op |-> "Release", err |-> "nil"])
  /\ UNCHANGED dirs
  /\ UNCHANGED nonSinkVars

KInit ==
  RepoIdle /\ EngineIdle /\ TransformIdle /\ FlightIdle /\ SinkInit /\ CodecIdle
    /\ BatchIdle
KNext == Sink \/ Release
KSpec == KInit /\ [][KNext]_vars

\* ========================================================= GeoJSON codec
\* NewLRSEventsFromGeoJSON decodes a feature collection into one record
\* batch with the columns LAT, LON and one column per property key;
\* ToGeoJSON writes the batches of an LRSEvents as a feature collection;
\* validateGeoJSON is the check the REST handler makes before it decodes.
\* A JSON value is written [t, v]: its kind and its text.

\* The most features a document holds.
MaxFeatures == 2

Null == [t |-> "null", v |-> ""]
Num(v) == [t |-> "num", v |-> v]
Str(v) == [t |-> "str", v |-> v]

Keys == {"ROUTEID", "km", "LAT"}
ValuesOf(k) ==
  IF k = "ROUTEID" THEN {Str("R1")}
  ELSE IF k = "km" THEN {Null, Num("5"), Str("12A")}
  ELSE {Num("7")}

\* The properties of a feature: any of the keys, each with one of its values.
PropertyMaps ==
  {f \in UNION {[K -> {Null, Num("5"), Num("7"), Str("12A"), Str("R1")}] :
                K \in SUBSET Keys} :
     \A k \in DOMAIN f : f[k] \in ValuesOf(k)}

\* A geometry: its type and its coordinates, a list of one or two
\* numbers or a list of lists (nested), as every geometry but a point has.
GeoJSONGeometry ==
  [type : {"Point", "LineString"}, nested : BOOLEAN,
   coordinates : {<<95>>, <<95, 5>>}]

GeoJSONFeature == [geometry : GeoJSONGeometry, properties : PropertyMaps]

FeatureCollections ==
  [type : {"FeatureCollection", "Feature"},
   features : UNION {[1..n -> GeoJSONFeature] : n \in 0..MaxFeatures}]

\* ---------------------------------------------------------------- decode
\* json.Unmarshal into []float64 fails on a list of lists.
Unmarshals(d) == \A i \in 1..Len(d.features) : ~d.features[i].geometry.nested

\* The keys of all features: the property columns of the schema.
PropKeys(d) == UNION {DOMAIN d.features[i].properties : i \in 1..Len(d.features)}

HasValue(f, k) == k \in DOMAIN f.properties /\ f.properties[k] # Null

\* The column type of a key: that of the first value that is not nil,
\* float64 for a number, string otherwise and when there is no value.
FieldType(d, k) ==
  IF \E i \in 1..Len(d.features) : HasValue(d.features[i], k)
    THEN LET i == CHOOSE i \in 1..Len(d.features) :
                    /\ HasValue(d.features[i], k)
                    /\ \A j \in 1..(i - 1) : ~HasValue(d.features[j], k)
         IN  IF d.features[i].properties[k].t = "num" THEN "float64" ELSE "string"
    ELSE "string"

\* Appending a value to its column: val.(float64) panics on anything
\* but a number; a string column takes fmt.Sprint of the value.
Panics(d) ==
  \E i \in 1..Len(d.features) :
    \/ Len(d.features[i].geometry.coordinates) < 2
    \/ \E k \in PropKeys(d) :
         /\ HasValue(d.features[i], k)
         /\ FieldType(d, k) = "float64"
         /\ d.features[i].properties[k].t # "num"

Cell(d, f, k) ==
  IF ~HasValue(f, k) THEN Null
  ELSE IF FieldType(d, k) = "float64" THEN f.properties[k]
  ELSE Str(f.properties[k].v)

\* coordinates[0] is the longitude, coordinates[1] the latitude.
DecodedRow(d, f) ==
  [LAT |-> f.geometry.coordinates[2], LON |-> f.geometry.coordinates[1],
   props |-> [k \in PropKeys(d) |-> Cell(d, f, k)]]

\* NewLRSEventsFromGeoJSON.  Neither the outer type, nor the type of a
\* geometry, nor the number of coordinates is looked at; the one check is
\* that of NewLRSEvents, that the batch has a ROUTEID column.
NewLRSEventsFromGeoJSON(d) ==
  IF ~Unmarshals(d) THEN [NoDecoded EXCEPT !.err = "failed to unmarshal geojson"]
  ELSE IF Panics(d) THEN [NoDecoded EXCEPT !.err = "panic"]
  ELSE IF "ROUTEID" \notin PropKeys(d)
    THEN [NoDecoded EXCEPT !.err = "required column ROUTEID not found in records"]
  ELSE [err |-> "nil",
        types |-> [k \in PropKeys(d) |-> FieldType(d, k)],
        rows |-> [i \in 1..Len(d.features) |-> DecodedRow(d, d.features[i])]]

\* ---------------------------------------------------------------- encode
\* The properties of a row: every column but those named like the
\* coordinate columns, where the row has a value.
RowProperties(row) ==
  LET ks == {k \in DOMAIN row.props : k \notin {"LAT", "LON"} /\ row.props[k] # Null}
  IN  [k \in ks |-> row.props[k]]

\* ToGeoJSON: one Point feature per row, coordinates [lon, lat].
ToGeoJSON(ev) ==
  IF ev.err # "nil" THEN [NoEncoded EXCEPT !.err = "no records to convert"]
  ELSE [err |-> "nil",
        doc |-> [type |-> "FeatureCollection",
                 features |->
                   [i \in 1..Len(ev.rows) |->
                      [geometry |-> [type |-> "Point", nested |-> FALSE,
                                     coordinates |-> <<ev.rows[i].LON, ev.rows[i].LAT>>],
                       properties |-> RowProperties(ev.rows[i])]]]]

\* -------------------------------------------------------------- validate
\* validateGeoJSON, check by check.  (Every feature of the model has the
\* type Feature.)
validateGeoJSON(d) ==
  IF ~Unmarshals(d) THEN "failed to parse JSON"
  ELSE IF d.type # "FeatureCollection" THEN "expected FeatureCollection"
  ELSE IF Len(d.features) = 0 THEN "no features in FeatureCollection"
  ELSE IF \E i \in 1..Len(d.features) : d.features[i].geometry.type # "Point"
    THEN "only Point geometry is supported"
  ELSE IF \E i \in 1..Len(d.features) : Len(d.features[i].geometry.coordinates) < 2
    THEN "Point must have at least 2 coordinates"
  ELSE IF \E i \in 1..Len(d.features) : "ROUTEID" \notin DOMAIN d.features[i].properties
    THEN "missing required ROUTEID property"
  ELSE "nil"

\* ---------------------------------------------------------------- actions
CodecInit ==
  /\ doc \in FeatureCollections
  /\ gpc = "given"
  /\ valid = "none"
  /\ decoded = NoDecoded
  /\ encoded = NoEncoded

\* The REST handler validates the body before anything else.
Validate ==
  /\ gpc = "given"
  /\ valid' = validateGeoJSON(doc)
  /\ gpc' = "validated"
  /\ UNCHANGED <<doc, decoded, encoded>>
  /\ UNCHANGED nonCodecVars

\* The decoder, called by the handler on a body it found valid, or by
\* any other caller on any document.
Decode ==
  /\ gpc = "given" \/ (gpc = "validated" /\ valid = "nil")
  /\ decoded' = NewLRSEventsFromGeoJSON(doc)
  /\ gpc' = "decoded"
  /\ UNCHANGED <<doc, valid, encoded>>
  /\ UNCHANGED nonCodecVars

\* The events that were decoded are written back.
Encode ==
  /\ gpc = "decoded"
  /\ decoded.err = "nil"
  /\ encoded' = ToGeoJSON(decoded)
  /\ gpc' = "encoded"
  /\ UNCHANGED <<doc, valid, decoded>>
  /\ UNCHANGED nonCodecVars

GInit ==
  RepoIdle /\ EngineIdle /\ TransformIdle /\ FlightIdle /\ SinkIdle /\ CodecInit
    /\ BatchIdle
GNext == Validate \/ Decode \/ Encode
GSpec == GInit /\ [][GNext]_vars

\* ============================================================ route batch
\* AddRoute calls made on one batch.
MaxAdds == 3

NoFile == <<>>

\* A route as GetLatest gives it: the three files of a catalog version and
\* no record batch.  Callers may switch its push-down off.
StoredRoute(id, pd, k) ==
  [route_id |-> id, push_down |-> pd, Point |-> PointFile(k),
   Segment |-> SegmentFile(k), LineString |-> LinestringFile(k),
   record |-> 0, temp_dir |-> NoFile]

\* A route as NewLRSRouteFromESRIGeoJSON gives it: record batch n, no file,
\* push-down off.
FreshRoute(id, n) ==
  [route_id |-> id, push_down |-> FALSE, Point |-> NoFile, Segment |-> NoFile,
   LineString |-> NoFile, record |-> n, temp_dir |-> NoFile]

\* temp_<route id>.parquet in the n-th temp directory.
RouteTempFile(n, id) == <<"tmp", n, id>>

\* LRSRoute.Sink on a route that has records: a fresh temp directory, the
\* point file in it; the records stay referenced.
SinkRoute(route, n) ==
  [route EXCEPT !.temp_dir = TempDir(n), !.Point = RouteTempFile(n, route.route_id)]

\* LRSRoute.SegmentQuery and LinestringQuery of a route without such a file:
\* a query over the view of its point file.
RouteSegmentQuery(route) == <<"segment_query">> \o Tail(route.Point)
RouteLinestringQuery(route) == <<"linestring_query">> \o Tail(route.Point)

\* The first entry of the file, 0 when there is none.
EntryOf(entries, file) ==
  IF \E i \in 1..Len(entries) : entries[i].filePath = file
    THEN CHOOSE i \in 1..Len(entries) :
           /\ entries[i].filePath = file
           /\ \A j \in 1..(i - 1) : entries[j].filePath # file
    ELSE 0

\* A new entry of a file: the route's id when its push-down is on.
NewEntry(file, route, mat) ==
  [filePath |-> file,
   routes |-> IF route.push_down THEN <<route.route_id>> ELSE <<>>,
   materialized |-> mat]

\* Mutant: the file is not looked up among the entries.
AddSource_NoLookup(entries, file, route, mat) ==
  Append(entries, NewEntry(file, route, mat))

\* The file is looked up among the entries: found, the route's id is
\* appended to its list; not found, a new entry is appended.
AddSource(entries, file, route, mat) ==
  IF EntryOf(entries, file) # 0
    THEN [entries EXCEPT ![EntryOf(entries, file)].routes =
                           Append(@, route.route_id)]
    ELSE Append(entries, NewEntry(file, route, mat))

\* The entry of a route without a file of the kind: its query.
AddQuery(entries, query) ==
  Append(entries, [filePath |-> query, routes |-> <<>>, materialized |-> FALSE])

\* The three kinds.  Only a point file and a segment file are entered as
\* materialized; a route without a point file adds no point entry.
AddToSourceFiles(sf, route) ==
  [Point |-> IF route.Point # NoFile
               THEN AddSource(sf.Point, route.Point, route, TRUE)
               ELSE sf.Point,
   Segment |-> IF route.Segment # NoFile
                 THEN AddSource(sf.Segment, route.Segment, route, TRUE)
                 ELSE AddQuery(sf.Segment, RouteSegmentQuery(route)),
   LineString |-> IF route.LineString # NoFile
                    THEN AddSource(sf.LineString, route.LineString, route, FALSE)
                    ELSE AddQuery(sf.LineString, RouteLinestringQuery(route))]

\* LRSRouteBatch.ViewName, part by part: a file with ids is selected WHERE
\* ROUTEID IN the ids, a query is taken as it is, and the files without
\* ids are read together by one read_parquet, last.
RECURSIVE ViewParts(_)
ViewParts(entries) ==
  IF entries = <<>> THEN <<>>
  ELSE LET sf == Head(entries)
       IN (IF sf.materialized /\ sf.routes = <<>> THEN <<>>
           ELSE <<[files |-> <<sf.filePath>>, ids |-> sf.routes]>>)
          \o ViewParts(Tail(entries))

NoPushDownFiles(entries) ==
  LET bulk == SelectSeq(entries, LAMBDA sf : sf.materialized /\ sf.routes = <<>>)
  IN  [i \in 1..Len(bulk) |-> bulk[i].filePath]

BatchViewName(entries) ==
  ViewParts(entries) \o
    (IF NoPushDownFiles(entries) # <<>>
       THEN <<[files |-> NoPushDownFiles(entries), ids |-> <<>>]>>
       ELSE <<>>)

\* LRSRoute.Release on a route value: its record batch is released, its
\* temp directory removed.
ReleaseRoute(route, counts) ==
  [i \in 1..Len(counts) |-> IF i = route.record THEN counts[i] - 1 ELSE counts[i]]

RECURSIVE ReleaseRoutes(_, _)
ReleaseRoutes(routes, counts) ==
  IF routes = <<>> THEN counts
  ELSE ReleaseRoutes(Tail(routes), ReleaseRoute(Head(routes), counts))

\* LRSRouteBatch.Release: Release on every route value of the map.
RECURSIVE BatchRelease(_, _)
BatchRelease(kept, counts) ==
  IF DOMAIN kept = {} THEN counts
  ELSE LET id == CHOOSE id \in DOMAIN kept : TRUE
       IN BatchRelease([k \in DOMAIN kept \ {id} |-> kept[k]],
                       ReleaseRoute(kept[id], counts))

BatchInit ==
  /\ bpc = "adding"
  /\ added = <<>>
  /\ batchRoutes = <<>>
  /\ sourceFiles = NoSourceFiles
  /\ recordRefs = <<>>
  /\ tempDirs = {}

\* The routes a caller adds: one just built from a feature, or one of a
\* catalog version.
RoutesToAdd ==
  {FreshRoute(id, Len(recordRefs) + 1) : id \in Routes}
    \cup {StoredRoute(id, pd, k) : id \in Routes, pd \in BOOLEAN, k \in 1..2}

\* AddRoute(route): the batch works on its own copy of the route, which it
\* sinks when the route has no point file, enters under each kind and
\* keeps under the route's id.
AddRoute ==
  /\ bpc = "adding"
  /\ Len(added) < MaxAdds
  /\ \E route \in RoutesToAdd :
       LET copy == IF route.Point = NoFile
                     THEN SinkRoute(route, Len(added) + 1) ELSE route
       IN  /\ added' = Append(added, route)
           /\ recordRefs' = (IF route.record # 0 THEN Append(recordRefs, 1)
                             ELSE recordRefs)
           /\ tempDirs' = (IF route.Point = NoFile
                             THEN tempDirs \cup {copy.temp_dir} ELSE tempDirs)
           /\ sourceFiles' = AddToSourceFiles(sourceFiles, copy)
           /\ batchRoutes' = [id \in DOMAIN batchRoutes \cup {copy.route_id} |->
                                IF id = copy.route_id THEN copy ELSE batchRoutes[id]]
  /\ UNCHANGED bpc
  /\ UNCHANGED nonBatchVars

\* SyncFromGeoJSON returns: the deferred Release of every route it built
\* runs, then the deferred Release of the batch.
SyncReturn ==
  /\ bpc = "adding"
  /\ \A i \in 1..Len(added) : added[i].record # 0
  /\ recordRefs' = BatchRelease(batchRoutes, ReleaseRoutes(added, recordRefs))
  /\ tempDirs' = tempDirs \ {batchRoutes[id].temp_dir : id \in DOMAIN batchRoutes}
  /\ bpc' = "returned"
  /\ UNCHANGED <<added, batchRoutes, sourceFiles>>
  /\ UNCHANGED nonBatchVars

BInit ==
  RepoIdle /\ EngineIdle /\ TransformIdle /\ FlightIdle /\ SinkIdle /\ CodecIdle
    /\ BatchInit
BNext == AddRoute \/ SyncReturn
BSpec == BInit /\ [][BNext]_vars

\* ================================================================ claims
\* The call of p is the latest call made, and it has returned.
Returned(p) == pc[p] = "idle" /\ before[p].call = calls /\ result[p] # "none"
Succeeded(p) == Returned(p) /\ result[p] = "nil"
Failed(p) == Returned(p) /\ result[p] # "nil"

\* The rows of the active point file of a catalog (none: no rows).
ActivePointRows(cat) ==
  IF LatestRows(cat) = {} THEN EmptyBag
  ELSE files[cat[CHOOSE i \in LatestRows(cat) : TRUE].LRS_POINT_FILE]

IncomingIDs(p) == {incoming[p][k].LINKID : k \in 1..Len(incoming[p])}

\* C1: in every reachable state of the catalog, whatever SyncFromGeoJSON
\* calls were made, each committing or failing, at most one catalog row has
\* END_DATE = NULL.
C1_AtMostOneActive == Cardinality(ActiveRows(catalog)) <= 1

\* C2: after a successful SyncFromGeoJSON the newly active point file holds
\* exactly one row per (ROUTEID, VERTEX_SEQ), for exactly the incoming routes
\* and the previously active routes that are not incoming, and of an incoming
\* route only the incoming vertices.
C2_MergedPointFile ==
  \A p \in Syncers : Succeeded(p) =>
    LET new == ActivePointRows(catalog)
        old == ActivePointRows(before[p].rows)
        inc == ViewName(incoming[p])
    IN /\ catalog[Len(catalog)].LRS_POINT_FILE = PointFile(stamp[p])
       /\ RouteIDs(new) = IncomingIDs(p) \cup (RouteIDs(old) \ IncomingIDs(p))
       /\ \A r \in DOMAIN new : new[r] = 1
       /\ \A r1, r2 \in DOMAIN new :
            (r1.ROUTEID = r2.ROUTEID /\ r1.VERTEX_SEQ = r2.VERTEX_SEQ) => r1 = r2
       /\ \A id \in IncomingIDs(p) :
            DOMAIN RowsOfRoute(new, id) = DOMAIN RowsOfRoute(inc, id)

\* C3: the END_DATE update, the MAX(VERSION) read and the INSERT of one Sync
\* are atomic with respect to those of any other Sync: when a Sync commits,
\* the committed table is the one its three statements worked on, no other
\* Sync having committed since.
C3_CatalogStepsAtomic ==
  [][\A p \in Syncers : Commit(p) =>
        /\ Len(catalog) = txn[p].base
        /\ \A i \in 1..Len(catalog) :
             i \notin txn[p].upd => catalog[i] = txn[p].rows[i]]_vars

\* The engine has been called and has returned.
Calculated == out # NoOut
Events == Flatten(points)

\* C4: CalculatePointsMValue returns exactly one result row per input event
\* row, and the i-th result row carries the passthrough columns of the i-th
\* input event, the events being numbered across batches in arrival order,
\* whatever the number of candidate segments or linestring rows of the event.
C4_OneRowPerEvent ==
  (Calculated /\ Events # <<>>) =>
    /\ out.err = "nil"
    /\ Len(out.rows) = Len(Events)
    /\ \A i \in 1..Len(Events) : Passthrough(out.rows[i]) = Events[i]

\* Two batches were given: one event matches two linestring rows and has
\* several candidate segments, another matches no linestring row at all.
C4_Witness ==
  /\ Calculated
  /\ out.err = "nil"
  /\ Len(points) = 2
  /\ \E i \in 1..Len(Events) :
       /\ Cardinality(MatchingLines(Events[i], LinestringTable(lrs))) = 2
       /\ \E f \in PointOnLineChoices(Events[i], LinestringTable(lrs)) :
            Cardinality(Interpolated(Events[i], f, SegmentTable(lrs))) > 2
  /\ \E j \in 1..Len(Events) : MatchingLines(Events[j], LinestringTable(lrs)) = {}

\* The event lies on the segment, which has two distinct ends.
OnSegment(p, s) ==
  /\ <<s.LAT, s.LON>> # <<s.LAT1, s.LON1>>
  /\ (p.LAT - s.LAT) * (s.LON1 - s.LON) = (p.LON - s.LON) * (s.LAT1 - s.LAT)
  /\ InBoundingBox(<<p.LAT, p.LON>>, s)

\* m_k + t * (m_{k+1} - m_k) for the event on the segment, as a fraction with
\* a positive denominator.
ExpectedMValue(p, s) ==
  LET along == IF s.LAT1 # s.LAT THEN p.LAT - s.LAT ELSE p.LON - s.LON
      whole == IF s.LAT1 # s.LAT THEN s.LAT1 - s.LAT ELSE s.LON1 - s.LON
      sgn == IF whole > 0 THEN 1 ELSE -1
  IN  [n |-> sgn * (s.MVAL * whole + along * (s.MVAL1 - s.MVAL)), d |-> sgn * whole]

\* slope * sqrt(num / den) >= a / b, for b > 0.
RootGeq(slope, num, den, a, b) ==
  LET nonneg == slope >= 0 \/ num = 0
      x2 == slope * slope * num * b * b
      a2 == a * a * den
  IN  IF nonneg THEN a <= 0 \/ x2 >= a2
                ELSE a < 0 /\ x2 <= a2

\* The M-value m is within 1e-3 of the M unit, one thousandth, of the
\* fraction e.
WithinTolerance(m, e) ==
  LET r == e.n - m.base * e.d
  IN  /\ m.den > 0
      /\ RootGeq(m.slope, m.num, m.den, r - e.d, e.d)
      /\ RootGeq(-m.slope, m.num, m.den, -(r + e.d), e.d)

\* C5: an event lying on the segment between the consecutive vertices k and
\* k+1 of its route at parameter t gets m_value = m_k + t * (m_{k+1} - m_k)
\* and dist_to_line = 0, within tolerance 1e-3.
C5_InterpolatedOnSegment ==
  (Calculated /\ out.err = "nil") =>
    \A i \in 1..Len(Events) : \A g \in 1..Len(lrs) :
      (/\ lrs[g].ROUTEID = Events[i].ROUTEID
       /\ Cardinality(MatchingLines(Events[i], LinestringTable(lrs))) = 1) =>
        \A k \in 1..Len(SegmentsOf(lrs[g])) :
          OnSegment(Events[i], SegmentsOf(lrs[g])[k]) =>
            /\ out.rows[i].dist_to_line = 0
            /\ WithinTolerance(out.rows[i].MVAL,
                               ExpectedMValue(Events[i], SegmentsOf(lrs[g])[k]))

\* No segment of the event's route has a bounding box holding its projected
\* vertex, whichever nearest points are taken.
NoCandidate(p) ==
  \A f \in PointOnLineChoices(p, LinestringTable(lrs)) :
    Interpolated(p, f, SegmentTable(lrs)) = {}

\* C11: an event with no candidate segment, as one whose route has no
\* geometry loaded, is not dropped: its result row has m_value = 0 and
\* dist_to_line = NULL.
C11_NoCandidateRow ==
  (Calculated /\ Events # <<>>) =>
    /\ Len(out.rows) = Len(Events)
    /\ \A i \in 1..Len(Events) : NoCandidate(Events[i]) =>
         /\ i <= Len(out.rows)
         /\ Passthrough(out.rows[i]) = Events[i]
         /\ out.rows[i].MVAL = Zero
         /\ out.rows[i].dist_to_line = NullDist

\* An event of a route that is not loaded comes after one that has candidates.
C11_Witness ==
  /\ Calculated
  /\ Len(Events) = 2
  /\ ~NoCandidate(Events[1])
  /\ NoCandidate(Events[2])
  /\ out.rows[2].dist_to_line = NullDist

\* C6: each committed Sync inserts exactly one row, of version
\* max(existing) + 1; after n sequential commits from an empty catalog the
\* rows have versions 1..n, and the row of the highest version alone is active.
C6_VersionsInSequence ==
  /\ \A p \in Syncers : Succeeded(p) =>
       /\ Len(catalog) = Len(before[p].rows) + 1
       /\ catalog[Len(catalog)].VERSION = MaxVersion(before[p].rows) + 1
       /\ \A i \in 1..Len(before[p].rows) :
            catalog[i].VERSION = before[p].rows[i].VERSION
  /\ \A i \in 1..Len(catalog) :
       /\ catalog[i].VERSION = i
       /\ catalog[i].END_DATE = NULL <=> i = Len(catalog)

\* Two sequential commits: versions 1 and 2, the first closed.
C6_Witness ==
  /\ Len(catalog) = 2
  /\ \E p \in Syncers : Succeeded(p)

C8_GetLatestResult ==
  [][\A routeID \in Routes : GetLatest(routeID) =>
        /\ got'.err = "no active catalog entry found" <=> ActiveRows(catalog) = {}
        /\ ActiveRows(catalog) # {} =>
             /\ got'.err = "nil"
             /\ got'.route.route_id = routeID
             /\ got'.route.push_down
             /\ \E i \in ActiveRows(catalog) :
                  /\ got'.route.Point = catalog[i].LRS_POINT_FILE
                  /\ got'.route.Segment = catalog[i].LRS_SEGMENT_FILE
                  /\ got'.route.LineString = catalog[i].LRS_LINESTR_FILE]_vars

\* C9: when mergeWithExisting returns an error, the catalog has the rows and
\* END_DATE values it had before the call.
C9_ErrorLeavesCatalog ==
  \A p \in Syncers : Failed(p) =>
    /\ catalog = before[p].rows
    /\ tableExists = before[p].exists

\* A call failed at its commit, over a catalog with an active row.
C9_Witness ==
  \E p \in Syncers :
    /\ Failed(p)
    /\ result[p] = "failed to commit transaction"
    /\ ActiveRows(catalog) # {}

\* C10: once a first version is committed, a GetLatest made while Syncs run
\* never fails with no-active-catalog and returns the files of a committed row.
C10_ReaderSeesCommitted ==
  [][\A routeID \in Routes : (GetLatest(routeID) /\ Len(catalog) >= 1) =>
        /\ got'.err = "nil"
        /\ \E i \in 1..Len(catalog) :
             /\ got'.route.Point = catalog[i].LRS_POINT_FILE
             /\ got'.route.Segment = catalog[i].LRS_SEGMENT_FILE
             /\ got'.route.LineString = catalog[i].LRS_LINESTR_FILE]_vars

\* The reader holds the committed version while a Sync has closed that row
\* and inserted its own in a transaction it has not committed.
C10_Witness ==
  /\ got.err = "nil"
  /\ \E p \in Syncers :
       /\ pc[p] = "commit"
       /\ txn[p].upd # {}
       /\ \E i \in txn[p].upd : got.route.Point = catalog[i].LRS_POINT_FILE

\* C20: syncing the same set of routes twice in a row with unchanged data
\* yields two catalog entries, the first closed and the second active, whose
\* point, segment and linestring files have identical row contents.
C20_SameSyncSameFiles ==
  \A p \in Syncers : \A q \in Syncers \ {p} :
    (/\ Succeeded(p)
     /\ pc[q] = "idle" /\ result[q] = "nil"
     /\ before[q].call = before[p].call - 1
     /\ incoming[q] = incoming[p]) =>
      LET n == Len(catalog)
      IN /\ n = Len(before[q].rows) + 2
         /\ catalog[n - 1].END_DATE = CURRENT_DATE
         /\ catalog[n].END_DATE = NULL
         /\ catalog[n - 1].LRS_POINT_FILE # catalog[n].LRS_POINT_FILE
         /\ files[catalog[n].LRS_POINT_FILE] = files[catalog[n - 1].LRS_POINT_FILE]
         /\ files[catalog[n].LRS_SEGMENT_FILE] = files[catalog[n - 1].LRS_SEGMENT_FILE]
         /\ files[catalog[n].LRS_LINESTR_FILE] = files[catalog[n - 1].LRS_LINESTR_FILE]

\* The second of two committed calls brought the document of the first.
C20_Witness ==
  \E p \in Syncers : \E q \in Syncers \ {p} :
    /\ Succeeded(p)
    /\ pc[q] = "idle" /\ result[q] = "nil"
    /\ before[q].call = before[p].call - 1
    /\ incoming[q] = incoming[p]
    /\ Len(catalog) = 2

\* Transform has returned without an error.
Transformed == tOut.returned /\ tOut.err = "none"
RowsIn == Flatten(tIn.obj.records)
RowsOut == Flatten(tOut.geometry.records)

\* C16: when Transform returns without an error, what it returns is a
\* geometry of the type of its input, holding one row for every row of
\* the input's batches, and the columns that are not coordinates have in
\* each row the value they had in the input row.
C16_SameTypeRowForRow ==
  Transformed =>
    /\ tOut.geometry.kind = tIn.obj.kind
    /\ Len(RowsOut) = Len(RowsIn)
    /\ \A i \in 1..Len(RowsIn) :
         i <= Len(RowsOut) => RowsOut[i].ATTR = RowsIn[i].ATTR

\* C17: when the target system is the system of the geometry, every row
\* Transform returns has the latitude and the longitude of the input row
\* in the columns they came from, whatever the axis order flag.
C17_EqualCRSNoOp ==
  (Transformed /\ tIn.crs = tIn.obj.crs) =>
    \A i \in 1..Len(RowsOut) :
      /\ RowsOut[i].LAT = RowsIn[i].LAT
      /\ RowsOut[i].LON = RowsIn[i].LON

\* The exchange has ended, with an error or with its results written.
Answered == xpc = "done"
AnsweredWithError ==
  Answered /\ response.err \notin {"none", "nil"} /\ response.rows = <<>>
RequestRows == Flatten(request.batches)

\* The route ids the rows of the request name, and those among them that
\* the active version of the catalog holds.
Referenced == {RequestRows[i].ROUTEID : i \in 1..Len(RequestRows)}
Known ==
  IF ActiveRows(served.catalog) = {} THEN {}
  ELSE {id \in Referenced : \E i \in 1..Len(served.routes) :
                              served.routes[i].ROUTEID = id}

\* C12: an exchange whose events passed every check before the routes are
\* loaded ends with the error that no route could be loaded, and with no
\* result, when none of the ids its rows name is in the active version;
\* when one of them is, it does not end with that error.
C12_UnknownRoutesFail ==
  (Answered /\ events.err = "nil") =>
    /\ Known = {} =>
         /\ response.err = "failed to load any LRS routes"
         /\ response.rows = <<>>
    /\ Known # {} => response.err # "failed to load any LRS routes"

\* C13: a request without a row, whether it has no batch or only batches
\* of no rows, is answered with an error and no result rows, and the
\* handler answers it before it asks the repository for a route.
C13_NoRowsIsAnError ==
  RequestRows = <<>> =>
    /\ xpc \notin {"load", "calculate"}
    /\ Answered => AnsweredWithError
C13_Witness ==
  /\ Len(request.batches) = 2
  /\ RequestRows = <<>>
  /\ AnsweredWithError
  /\ response.err = "no ROUTEID found in records"

\* The loop over the reader writes a spill file for these batches.
RECURSIVE ReachesThreshold(_, _)
ReachesThreshold(batches, size) ==
  /\ batches # <<>>
  /\ \/ size + Len(Head(batches)) >= maxBatchSize
     \/ ReachesThreshold(Tail(batches), size + Len(Head(batches)))

\* What the client can tell of a response: that it failed, or the
\* M-value and the distance of each row.
Outcome(r) ==
  [failed |-> r.err # "nil",
   values |-> [i \in 1..Len(r.rows) |-> <<r.rows[i].MVAL, r.rows[i].dist_to_line>>]]

\* The responses of the handler to the batches of the request given the
\* spill files and the batches in memory at the end of the stream.
Responses(spilled, recs) ==
  UNION { IF ev.err # "nil" THEN {[err |-> ev.err, rows |-> <<>>]}
          ELSE IF LoadedIDs(served, GetRouteIDs(ev)) = {}
            THEN {[err |-> "failed to load any LRS routes", rows |-> <<>>]}
          ELSE Answers(served, LoadedIDs(served, GetRouteIDs(ev)), ev) :
          ev \in ReceiveEvents(spilled, recs, request) }

LastCall == ops[Len(ops)]
SunkLast == Len(ops) >= 1 /\ LastCall = [op |-> "Sink", err |-> "nil"]
ReleasedAfterSink ==
  /\ Len(ops) >= 2
  /\ LastCall.op = "Release"
  /\ ops[Len(ops) - 1] = [op |-> "Sink", err |-> "nil"]

\* C15: right after a Sink that succeeded the object is materialized, none
\* of its batches is still referenced, and the file it names exists in a
\* directory that did not exist before the call; right after the Release
\* that follows, neither that file nor that directory exists.
C15_SinkThenRelease ==
  /\ SunkLast =>
       /\ IsMaterialized(held)
       /\ \A i \in 1..Len(refs) : refs[i] <= 0
       /\ held.sourceFile \in disk
       /\ held.tempDir \in disk
       /\ held.tempDir \notin diskBefore
       /\ SubSeq(held.sourceFile, 1, Len(held.tempDir)) = held.tempDir
  /\ ReleasedAfterSink =>
       /\ held.sourceFile \notin disk
       /\ held.tempDir \notin disk

\* What a feature says: where it is and its properties that have a value
\* (the route id among them).
FeatureTuple(f) ==
  [lon |-> f.geometry.coordinates[1], lat |-> f.geometry.coordinates[2],
   properties |-> [k \in {k \in DOMAIN f.properties : f.properties[k] # Null} |->
                     f.properties[k]]]
FeatureTuples(d) == {FeatureTuple(d.features[i]) : i \in 1..Len(d.features)}
RoundTripped == gpc = "encoded" /\ encoded.err = "nil"

\* C18: a document that was decoded and written back has as many features
\* as it had, each a Point with two coordinates, and the features say the
\* same as before: the same longitude first and latitude second, the same
\* route id and the same other properties.
C18_RoundTrip ==
  RoundTripped =>
    /\ Len(encoded.doc.features) = Len(doc.features)
    /\ \A i \in 1..Len(encoded.doc.features) :
         /\ encoded.doc.features[i].geometry.type = "Point"
         /\ Len(encoded.doc.features[i].geometry.coordinates) = 2
    /\ FeatureTuples(encoded.doc) = FeatureTuples(doc)

\* The documents the decoder is to reject.
Rejectable(d) ==
  \/ d.type # "FeatureCollection"
  \/ \E i \in 1..Len(d.features) :
       \/ d.features[i].geometry.type # "Point"
       \/ d.features[i].geometry.nested
       \/ Len(d.features[i].geometry.coordinates) < 2
       \/ "ROUTEID" \notin DOMAIN d.features[i].properties

\* C19: for a document whose outer type is not FeatureCollection, or with
\* a feature that is not a Point, has fewer than two coordinates or has
\* no ROUTEID property, NewLRSEventsFromGeoJSON returns an error and no
\* events.
C19_DecoderRejects ==
  (gpc \in {"decoded", "encoded"} /\ Rejectable(doc)) =>
    /\ decoded.err \notin {"nil", "panic"}
    /\ decoded.rows = <<>>

\* C30: a Release that follows a Release on the same object changes
\* nothing: no batch is released again and nothing is removed.
C30_ReleaseTwice ==
  [][(Len(ops) >= 1 /\ LastCall.op = "Release" /\ Release) =>
       (refs' = refs /\ disk' = disk)]_vars

RECURSIVE GCD(_, _)
GCD(a, b) == IF b = 0 THEN a ELSE GCD(b, a % b)
IsSquare(n) == \E k \in 0..n : k * k = n
Root(n) == CHOOSE k \in 0..n : k * k = n

\* The number an M-value base + slope * sqrt(num / den) stands for, written
\* one way: as a fraction n / d in lowest terms with d > 0 when the root is
\* rational, and with the fraction under the root in lowest terms when not.
Canonical(m) ==
  LET g == GCD(m.num, m.den)
      p == m.num \div g
      q == m.den \div g
  IN  IF IsSquare(p) /\ IsSquare(q)
        THEN LET n == m.base * Root(q) + m.slope * Root(p)
                 d == Root(q)
                 h == GCD(IF n < 0 THEN -n ELSE n, d)
             IN  [rational |-> TRUE, n |-> n \div h, d |-> d \div h,
                  base |-> 0, slope |-> 0, num |-> 0, den |-> 1]
        ELSE [rational |-> FALSE, n |-> 0, d |-> 1,
              base |-> m.base, slope |-> m.slope, num |-> p, den |-> q]

\* The candidate rows of a point the tie-break by segment seq would keep:
\* least dist, and among those the least VERTEX_SEQ.
SeqBest(rows, segTable) ==
  {r \in rows : \A q \in rows :
     \/ r.dist < q.dist
     \/ /\ r.dist = q.dist
        /\ segTable[r.segment].VERTEX_SEQ <= segTable[q.segment].VERTEX_SEQ}

\* The M-values a point gets when its candidates are taken that way.
SeqBestMValues(p) ==
  UNION {{IF r.m_val = NullMVal THEN Zero ELSE r.m_val :
            r \in SeqBest(Interpolated(p, f, SegmentTable(lrs)), SegmentTable(lrs))} :
         f \in PointOnLineChoices(p, LinestringTable(lrs))}

\* C21: an event with candidate segments gets the M-value interpolated on
\* the candidate of least dist_to_line and, among equal distances, of
\* least segment seq.
C21_TieBreakBySeq ==
  (Calculated /\ Events # <<>>) =>
    \A i \in 1..Len(Events) :
      (i <= Len(out.rows) /\ ~NoCandidate(Events[i])) =>
        \E m \in SeqBestMValues(Events[i]) :
          Canonical(out.rows[i].MVAL) = Canonical(m)

\* The rows of the active segment file of a catalog (none: no rows).
ActiveSegmentRows(cat) ==
  IF LatestRows(cat) = {} THEN EmptyBag
  ELSE files[cat[CHOOSE i \in LatestRows(cat) : TRUE].LRS_SEGMENT_FILE]

\* C29: after a successful SyncFromGeoJSON the active segment file holds, for
\* every incoming route of n >= 2 vertices, exactly n-1 segments, the k-th of
\* them pairing vertex k with vertex k+1 of that route, and every segment
\* pairs two vertices of the route it is filed under.
C29_SegmentsPerRoute ==
  \A p \in Syncers : Succeeded(p) =>
    LET seg == ActiveSegmentRows(catalog)
        pts == ActivePointRows(catalog)
    IN /\ \A i \in 1..Len(incoming[p]) :
            LET f == incoming[p][i]
                n == Len(f.path)
            IN n >= 2 =>
                 /\ BagCardinality(RowsOfRoute(seg, f.LINKID)) = n - 1
                 /\ \A k \in 1..(n - 1) :
                      [ROUTEID |-> f.LINKID, VERTEX_SEQ |-> k - 1,
                       MVAL |-> f.path[k], MVAL1 |-> f.path[k + 1]] \in DOMAIN seg
       /\ \A s \in DOMAIN seg :
            /\ [ROUTEID |-> s.ROUTEID, VERTEX_SEQ |-> s.VERTEX_SEQ,
                MVAL |-> s.MVAL] \in DOMAIN pts
            /\ [ROUTEID |-> s.ROUTEID, VERTEX_SEQ |-> s.VERTEX_SEQ + 1,
                MVAL |-> s.MVAL1] \in DOMAIN pts

\* Both syncers have made one call each, and both calls committed.
BothCommitted ==
  /\ \A p \in Syncers : pc[p] = "idle" /\ result[p] = "nil" /\ before[p].call > 0
  /\ before["s1"].call # before["s2"].call

\* Neither call began on a catalog that held the other's commit.
RanConcurrently ==
  \A p \in Syncers : before[p].rows = before["s1"].rows

\* C24: when two SyncFromGeoJSON calls of disjoint route sets have run
\* concurrently and both committed, every active point file of the highest
\* version contains the routes of both calls.
C24_ConcurrentSyncsKeepBoth ==
  (BothCommitted /\ RanConcurrently /\ IncomingIDs("s1") \cap IncomingIDs("s2") = {}) =>
    \A i \in LatestRows(catalog) :
      IncomingIDs("s1") \cup IncomingIDs("s2") \subseteq
        RouteIDs(files[catalog[i].LRS_POINT_FILE])

\* The batches the handler has received so far.
Received == SubSeq(request.batches, 1, Len(request.batches) - Len(pending))

C23_ReleasedOnEveryExit ==
  Answered =>
    /\ \A i \in 1..Len(retained) : retained[i] = 0
    /\ ~tempDir

\* C28: result rows are on the stream only when the client's batches were
\* all read and the handler has computed its results: none while it reads,
\* and none when it returns an error.
C28_ResultsAfterInput ==
  /\ response.rows # <<>> =>
       /\ pending = <<>>
       /\ xpc = "done"
       /\ response.err = "nil"
  /\ AnsweredWithError \/ response.err = "nil" \/ response = NoResponse
C28_Witness ==
  /\ Answered
  /\ response.err = "nil"
  /\ response.rows # <<>>
  /\ Len(request.batches) = 2

\* C25: when SyncFromGeoJSON has returned, the record batch of every
\* incoming route has been released exactly once, the deferred Release of
\* the route and that of the batch taken together.
C25_ReleasedOnce ==
  bpc = "returned" => \A i \in 1..Len(recordRefs) : recordRefs[i] = 0

BatchKinds == {"Point", "Segment", "LineString"}

\* The file of a kind that the i-th added route brings to the batch: its
\* own, or the point file its copy was sinked to.
FileAdded(kind, i) ==
  IF kind = "Point" /\ added[i].Point = NoFile
    THEN RouteTempFile(i, added[i].route_id)
    ELSE added[i][kind]
FilesAdded(kind) == {FileAdded(kind, i) : i \in 1..Len(added)} \ {NoFile}

\* The ids of the routes added with the file, from the i-th on, in the
\* order they were added.
RECURSIVE IdsAddedWith(_, _, _)
IdsAddedWith(kind, file, i) ==
  IF i > Len(added) THEN <<>>
  ELSE (IF FileAdded(kind, i) = file THEN <<added[i].route_id>> ELSE <<>>)
         \o IdsAddedWith(kind, file, i + 1)

\* The route the file was first added with.
FirstAdder(kind, file) ==
  added[CHOOSE i \in 1..Len(added) :
          /\ FileAdded(kind, i) = file
          /\ \A j \in 1..(i - 1) : FileAdded(kind, j) # file]

\* C26: after any AddRoute calls, under every kind no two entries name the
\* same path, every file a route was added with has its entry, and the
\* entry of a file that was entered by a push-down route lists the ids of
\* all the routes added with the file, in the order they were added.
C26_OneEntryPerFile ==
  \A kind \in BatchKinds :
    LET entries == sourceFiles[kind]
    IN  /\ \A i, j \in 1..Len(entries) :
             i # j => entries[i].filePath # entries[j].filePath
        /\ \A f \in FilesAdded(kind) :
             /\ EntryOf(entries, f) # 0
             /\ FirstAdder(kind, f).push_down =>
                  entries[EntryOf(entries, f)].routes = IdsAddedWith(kind, f, 1)
C26_Witness ==
  /\ Len(added) = 3
  /\ Len(sourceFiles.Point) = 2
  /\ sourceFiles.Point[1].routes = <<"R1", "R2">>
  /\ sourceFiles.Segment[1].routes = <<"R1", "R2">>
  /\ sourceFiles.Point[2].routes = <<>>

\* C27: the point entry of a file that was entered by a route with
\* push-down off keeps an empty id list whatever routes are added later,
\* and the batch's view reads the file with no ROUTEID filter.
C27_BulkFileStaysUnfiltered ==
  \A f \in FilesAdded("Point") :
    ~FirstAdder("Point", f).push_down =>
      LET entries == sourceFiles.Point
          view == BatchViewName(entries)
      IN  /\ EntryOf(entries, f) # 0
          /\ entries[EntryOf(entries, f)].routes = <<>>
          /\ \A p \in 1..Len(view) :
               (\E k \in 1..Len(view[p].files) : view[p].files[k] = f) =>
                 view[p].ids = <<>>

====
